---- MODULE Spec2Model ----
(***************************************************************************)
(* Dynamic resource access layer of the dashboard backend:                 *)
(*   - resourceVerber.Update: fetch / three-way merge patch / patch write  *)
(*     inside retry.RetryOnConflict(retry.DefaultRetry, ...);              *)
(*   - resourceVerber.groupVersionResourceFromKind and                     *)
(*     buildGroupVersionResourceCache over kindToGroupVersionResource;     *)
(*   - InClusterClientForMemberCluster over memberClients,                 *)
(*     karmadaMemberConfig and inClusterClientForMemberAPIServer;          *)
(*   - resourceVerber.Get, Delete and Create over the dynamic client;      *)
(*   - two goroutines resolving kinds over the unsynchronised cache map;   *)
(*   - the package-level getters InClusterKarmadaClient,                   *)
(*     InClusterClientForKarmadaAPIServer, GetKarmadaConfig,               *)
(*     GetMemberConfig and VerberClient;                                   *)
(*   - the initializers InitKubeConfig and InitKarmadaConfig, load by      *)
(*     load;                                                               *)
(*   - the data-select package: NewSortQuery, NewFilterQuery, GetProperty  *)
(*     of the policy cells, and filter, sort and pagination of a list.     *)
(* Each component has its own next-state relation and specification; the   *)
(* variables of the other components stay unchanged under it.              *)
(***************************************************************************)
EXTENDS Integers, Sequences, FiniteSets, TLC

(***************************************************************************)
(* Bounds of the model.                                                    *)
(***************************************************************************)
\* The highest version token the API server hands out: writes to the stored
\* object stop when it is reached.
MaxResourceVersion == 3
\* The number of member-cluster clients the process constructs.
MaxClients == 3
\* The longest raw sort or filter list a request carries.
MaxRawLen == 4
\* The longest list of cells the engine is given.
MaxCells == 3
\* The largest page size of a pagination spec.
MaxItemsPerPage == 3
\* The highest page number of a pagination spec.
MaxPage == 3

(***************************************************************************)
(* State.                                                                  *)
(***************************************************************************)
\* resourceVerber.Update and the object it updates.
VARIABLES
    stored,      \* the object the API server holds
    origRead,    \* the copy the caller read and edited
    object,      \* the caller's object, as passed to Update
    upc,         \* where the Update call stands: idle, fetch, patch, done
    steps,       \* backoff.Steps left in retry.RetryOnConflict
    result,      \* the server copy fetched in the current attempt
    patchBytes,  \* the patch of the current attempt
    ret,         \* the error Update returned, "nil" for none
    attemptErr,  \* the error the last attempt ended with, "nil" for none
    nFetch,      \* Get requests issued by the current Update call
    nPatch,      \* Patch requests issued by the current Update call
    nConflict,   \* attempts of the current Update call that ended in a conflict
    clean,       \* nobody else wrote since the last Update call began, and
                 \* that call has not failed
    repeat,      \* this Update repeats the last one against an unchanged server
    updateGVR    \* gvr, the coordinate the Update call addresses

updateVars == <<stored, origRead, object, upc, steps, result, patchBytes,
                ret, attemptErr, nFetch, nPatch, nConflict, clean, repeat, updateGVR>>

\* The coordinate resolver and the catalog it enumerates.
VARIABLES
    catalog,       \* index in Catalogs of the catalog the control plane serves
    kindToGroupVersionResource,  \* the process-wide coordinate cache
    rpc,           \* where the resolve call stands: idle, enumerate, build,
                   \* recheck, done
    rkind,         \* the kind the call asks for
    resourceList,  \* what ServerGroupsAndResources returned to the call
    rret,          \* what the call returned
    nEnum,         \* catalog enumerations of the current call
    nBuild,        \* cache rebuilds of the current call
    nCheck         \* cache re-checks of the current call

resolveVars == <<catalog, kindToGroupVersionResource, rpc, rkind, resourceList,
                 rret, nEnum, nBuild, nCheck>>

\* The cluster client registry and the requests that use it.
VARIABLES
    karmadaRestConfig,    \* the control plane's rest.Config, nil before init
    karmadaAPIConfig,     \* the control plane's clientcmdapi.Config
    karmadaMemberConfig,  \* the rest.Config member clients are built from
    inClusterClientForMemberAPIServer,  \* package-level client variable
    memberClients,        \* sync.Map: cluster name -> client
    constructed,          \* every client kubeclient.NewForConfig has built
    mpc,                  \* per request: idle, load, sethost, new, setglobal,
                          \* store, ret, done
    mname,                \* per request: the cluster name asked for
    mclient,              \* per request: the local variable c
    mret                  \* per request: the client returned

registryVars == <<karmadaRestConfig, karmadaAPIConfig, karmadaMemberConfig,
                  inClusterClientForMemberAPIServer, memberClients,
                  constructed, mpc, mname, mclient, mret>>

\* resourceVerber.Get, Delete and Create.
VARIABLES
    vpc,        \* where the call stands: idle, resolve, done
    verb,       \* the method called: Get, Delete or Create
    deleteNow,  \* Delete's deleteNow argument
    vobject,    \* the kind, group and version of the object given to Create
    sent,       \* the requests the call has sent to the resource API
    vret        \* the error the call returned

verberVars == <<vpc, verb, deleteNow, vobject, sent, vret>>

\* The singleton clients of the registry and the process itself.
VARIABLES
    inClusterKarmadaClient,              \* package-level karmada clientset
    inClusterClientForKarmadaAPIServer,  \* package-level kubernetes client
    exited,     \* os.Exit has ended the process
    glast       \* what the last call of a getter returned

getterVars == <<inClusterKarmadaClient, inClusterClientForKarmadaAPIServer,
                exited, glast>>

\* groupVersionResourceFromKind in requests that run at the same time.
VARIABLES
    cpc,      \* per request: idle, lookup, enumerate, build, recheck, done
    ckind,    \* per request: the kind asked for
    clist,    \* per request: what ServerGroupsAndResources returned
    cnext,    \* per request: the next assignment of its rebuild
    cret,     \* per request: what the call returned
    writing,  \* the requests in the middle of an assignment to the map
    fatal     \* the runtime has ended the process on a concurrent map access

concurrentVars == <<cpc, ckind, clist, cnext, cret, writing, fatal>>

\* The two initializers of the registry, InitKubeConfig and InitKarmadaConfig.
VARIABLES
    kubernetesRestConfig,  \* the host cluster's rest.Config, nil before init
    kubernetesAPIConfig,   \* the host cluster's clientcmdapi.Config
    inCluster,       \* rest.InClusterConfig() succeeds in this process
    ipc,             \* where the initializer stands: idle, kube_rest, kube_api,
                     \* karmada_api, karmada_member, done, exit
    initializer,     \* the initializer that runs or ran last
    kubeconfigPath,  \* builder.kubeconfigPath of the running initializer
    tried            \* the credential sources the initializer has tried, in
                     \* order, each with its outcome

startupVars == <<kubernetesRestConfig, kubernetesAPIConfig, inCluster, ipc,
                 initializer, kubeconfigPath, tried>>

\* The data-select package: its functions keep no state.
VARIABLE
    dsCall   \* the call a request makes of one of its functions: the
             \* function, its arguments and its result

\* What a step of one component leaves alone.
UpdateOnly ==
    UNCHANGED <<resolveVars, registryVars, verberVars, getterVars,
                concurrentVars, startupVars, dsCall>>
ResolveOnly ==
    UNCHANGED <<updateVars, registryVars, verberVars, getterVars,
                concurrentVars, startupVars, dsCall>>
RegistryOnly ==
    UNCHANGED <<updateVars, resolveVars, verberVars, getterVars,
                concurrentVars, startupVars, dsCall>>
VerberOnly ==
    UNCHANGED <<updateVars, registryVars, getterVars, concurrentVars,
                startupVars, dsCall>>
GetterOnly ==
    UNCHANGED <<updateVars, resolveVars, verberVars, concurrentVars,
                startupVars, dsCall>>
ConcurrentOnly ==
    UNCHANGED <<updateVars, registryVars, verberVars, getterVars, startupVars,
                dsCall, catalog, rpc, rkind, resourceList, rret, nEnum, nBuild, nCheck>>
StartupOnly ==
    UNCHANGED <<updateVars, resolveVars, verberVars, concurrentVars,
                inClusterClientForMemberAPIServer, memberClients, constructed,
                mpc, mname, mclient, mret, inClusterKarmadaClient,
                inClusterClientForKarmadaAPIServer, glast, dsCall>>
DataSelectOnly ==
    UNCHANGED <<updateVars, resolveVars, verberVars, concurrentVars,
                registryVars, getterVars, startupVars>>

(***************************************************************************)
(* Untyped resource objects (unstructured.Unstructured), as JSON           *)
(* documents: a function from field name to value.  Absent is "the key is  *)
(* not in the document", Null is the JSON null; payload values are         *)
(* 1 and 2 and version tokens are positive integers.                     *)
(***************************************************************************)
Absent == -1
Null == 0

Fields == {"label", "spec"}
ResourceVersion == "resourceVersion"
AllFields == Fields \cup {ResourceVersion}

Vals == {1, 2}
\* What a caller can put in a field of the object it submits.
DesiredVals == Vals \cup {Absent, Null}
\* What the server stores in a field.
StoredVals == Vals \cup {Absent}

\* object.GetResourceVersion()
GetResourceVersion(obj) == obj[ResourceVersion]

\* SetResourceVersion that leaves the object as it is.
SetResourceVersionSkipped(obj, rv) == obj

\* SetResourceVersion, broken: the object keeps nothing but the new token.
SetResourceVersionClearing(obj, rv) ==
    [f \in AllFields |-> IF f = ResourceVersion THEN rv ELSE Absent]

\* object.SetResourceVersion(rv)
SetResourceVersion(obj, rv) == [obj EXCEPT ![ResourceVersion] = rv]

\* The payload fields of a document, without the version token.
FieldsOf(obj) == [f \in Fields |-> obj[f]]

(***************************************************************************)
(* JSON merge patches (RFC 7386).  A patch is a document too: Absent means *)
(* the patch does not mention the key, Null means "delete the key".        *)
(***************************************************************************)
EmptyPatch == [f \in AllFields |-> Absent]

\* jsonpatch.CreateMergePatch(a, b), broken: stops at the first key that differs.
CreateMergePatchFirstDiffOnly(a, b) ==
    LET differ == {k \in AllFields : a[k] # b[k]}
        first == CHOOSE k \in differ : TRUE
    IN  [k \in AllFields |->
            IF differ # {} /\ k = first
            THEN (IF b[k] = Absent THEN Null ELSE b[k])
            ELSE Absent]

\* jsonpatch.CreateMergePatch(a, b): the merge patch that turns a into b.
\* A key of b that a lacks or holds with another value goes into the patch
\* with b's value (a JSON null of b stays a null); a key of a that b lacks
\* goes into the patch as null.
CreateMergePatch(a, b) ==
    [k \in AllFields |->
        IF b[k] # Absent
        THEN (IF a[k] = b[k] THEN Absent ELSE b[k])
        ELSE (IF a[k] # Absent THEN Null ELSE Absent)]

\* keepOrDeleteNullInJsonPatch(patch, keepNull): keepNull keeps only the
\* deletions of the patch, otherwise only its additions and changes.
KeepOrDeleteNull(patch, keepNull) ==
    [k \in AllFields |->
        IF keepNull
        THEN (IF patch[k] = Null THEN Null ELSE Absent)
        ELSE (IF patch[k] = Null THEN Absent ELSE patch[k])]

\* mergepatch.HasConflicts(left, right): a key both patches set differently.
HasConflicts(left, right) ==
    \E k \in AllFields :
        left[k] # Absent /\ right[k] # Absent /\ left[k] # right[k]

\* jsonpatch.MergePatch(doc, patch) on two patches: the patch's keys win and
\* nulls are kept.
MergeMergePatches(doc, patch) ==
    [k \in AllFields |-> IF patch[k] # Absent THEN patch[k] ELSE doc[k]]

\* jsonmergepatch.CreateThreeWayJSONMergePatch(original, modified, current):
\* additions and changes are current -> modified, deletions are
\* original -> modified.
CreateThreeWayJSONMergePatch(original, modified, current) ==
    LET addAndChangePatch == KeepOrDeleteNull(CreateMergePatch(current, modified), FALSE)
        deletePatch == KeepOrDeleteNull(CreateMergePatch(original, modified), TRUE)
    IN  MergeMergePatches(deletePatch, addAndChangePatch)

\* CreateThreeWayJSONMergePatch returns an error when the additions and the
\* deletions conflict.
ThreeWayConflict(original, modified, current) ==
    HasConflicts(KeepOrDeleteNull(CreateMergePatch(current, modified), FALSE),
                 KeepOrDeleteNull(CreateMergePatch(original, modified), TRUE))

\* The API server applying a merge patch to the payload of the stored object.
ApplyMergePatch(doc, patch) ==
    [k \in AllFields |->
        IF k = ResourceVersion THEN doc[k]
        ELSE IF patch[k] = Absent THEN doc[k]
        ELSE IF patch[k] = Null THEN Absent
        ELSE patch[k]]

(***************************************************************************)
(* Strings the resolver takes apart are sequences of characters.           *)
(***************************************************************************)
Slash == "/"
Dot == "."

\* unicode.ToLower on the letters that occur in the catalogs.
LowerChar(c) ==
    CASE c = "P" -> "p"
      [] c = "J" -> "j"
      [] c = "E" -> "e"
      [] c = "W" -> "w"
      [] OTHER -> c

\* strings.ToLower(s)
ToLower(s) == [i \in 1..Len(s) |-> LowerChar(s[i])]

\* strings.Contains(s, c) for a one-character c
Contains(s, c) == \E i \in 1..Len(s) : s[i] = c

\* strings.Count(s, c) for a one-character c
Count(s, c) == Cardinality({i \in 1..Len(s) : s[i] = c})

\* strings.Index(s, c) for a one-character c that s contains
Index(s, c) == CHOOSE i \in 1..Len(s) : s[i] = c /\ \A j \in 1..(i - 1) : s[j] # c

\* schema.ParseGroupVersion(gv): "" and "/" are the empty group-version, a
\* string with no slash is a version of the core group, "g/v" is split at the
\* slash, more than one slash is an error.
ParseGroupVersion(gv) ==
    IF Len(gv) = 0 \/ gv = <<Slash>>
    THEN [ok |-> TRUE, Group |-> <<>>, Version |-> <<>>]
    ELSE IF Count(gv, Slash) = 0
    THEN [ok |-> TRUE, Group |-> <<>>, Version |-> gv]
    ELSE IF Count(gv, Slash) = 1
    THEN [ok |-> TRUE,
          Group |-> SubSeq(gv, 1, Index(gv, Slash) - 1),
          Version |-> SubSeq(gv, Index(gv, Slash) + 1, Len(gv))]
    ELSE [ok |-> FALSE, Group |-> <<>>, Version |-> <<>>]

\* fmt.Sprintf("%s.%s", name, group)
CrdKind(name, group) == name \o <<Dot>> \o group

(***************************************************************************)
(* The coordinate of an object that names its own kind, group and version. *)
(***************************************************************************)
\* flect.Pluralize(s) on the regular nouns the catalogs hold: the noun with
\* an "s" appended.
Pluralize(s) == s \o <<"s">>

\* groupVersionResourceFromUnstructured, broken: the coordinate cache is
\* asked first.
groupVersionResourceFromUnstructuredCached(gvk) ==
    IF ToLower(gvk.Kind) \in DOMAIN kindToGroupVersionResource
    THEN kindToGroupVersionResource[ToLower(gvk.Kind)]
    ELSE [Group |-> gvk.Group, Version |-> gvk.Version,
          Resource |-> Pluralize(ToLower(gvk.Kind))]

\* v.groupVersionResourceFromUnstructured(object), from the
\* GroupVersionKind gvk of the object.
groupVersionResourceFromUnstructured(gvk) ==
    [Group |-> gvk.Group, Version |-> gvk.Version,
     Resource |-> Pluralize(ToLower(gvk.Kind))]

\* The objects callers hand to Create and Update, by their GroupVersionKind.
JobV2 == [Group |-> <<"b">>, Version |-> <<"v", "2">>, Kind |-> <<"J", "o", "b">>]
PodV1 == [Group |-> <<>>, Version |-> <<"v", "1">>, Kind |-> <<"P", "o", "d">>]
ObjectKinds == {JobV2, PodV1}

(***************************************************************************)
(* resourceVerber.Update.                                                  *)
(***************************************************************************)
\* retry.DefaultRetry.Steps
DefaultRetrySteps == 5

NoObject == [f \in AllFields |-> Absent]
InitialObject == [f \in AllFields |-> 1]

\* The GroupVersionKind of the object Update is called with.
UpdatedObjectKind == JobV2

\* schema.GroupVersionResource{}
NoGVR == [Group |-> <<>>, Version |-> <<>>, Resource |-> <<>>]

\* apierrors.IsConflict, broken: no error is retried.
IsConflictNever(err) == FALSE

\* apierrors.IsConflict, broken: every error is retried.
IsConflictAny(err) == TRUE

\* apierrors.IsConflict(err), the retriable predicate of RetryOnConflict.
IsConflict(err) == err = "conflict"

\* wait.ExponentialBackoff, broken: one step more than the backoff allows.
LastStepOneLater(s) == s = 0

\* wait.ExponentialBackoff: "if backoff.Steps == 1 { break }".
LastStep(s) == s = 1

\* retry.OnError around one attempt that ended with err ("nil" for success):
\* success and non-retriable errors return at once, a retriable error is
\* retried until the steps run out and is then returned.
OnError(err) ==
    /\ attemptErr' = err
    /\ IF err = "nil"
       THEN upc' = "done" /\ ret' = "nil" /\ steps' = steps
       ELSE IF IsConflict(err)
       THEN IF LastStep(steps)
            THEN upc' = "done" /\ ret' = err /\ steps' = steps
            ELSE upc' = "fetch" /\ ret' = ret /\ steps' = steps - 1
       ELSE upc' = "done" /\ ret' = err /\ steps' = steps
    /\ clean' = (clean /\ (upc' = "done" => err = "nil"))

\* Another client writes field f of the stored object.
OtherWrite(f, v) ==
    /\ UpdateOnly
    /\ stored[ResourceVersion] < MaxResourceVersion
    /\ stored[f] # v
    /\ stored' = [stored EXCEPT ![f] = v,
                                ![ResourceVersion] = stored[ResourceVersion] + 1]
    /\ clean' = FALSE
    /\ UNCHANGED <<origRead, object, upc, steps, result, patchBytes, ret,
                   attemptErr, nFetch, nPatch, nConflict, repeat, updateGVR>>

\* Update(object): the caller has read the stored object, edited its payload
\* into d and submits it; the object carries the version token it read.
UpdateCall(d) ==
    /\ UpdateOnly
    /\ upc \in {"idle", "done"}
    /\ origRead' = stored
    /\ object' = [f \in AllFields |->
                    IF f = ResourceVersion THEN stored[f] ELSE d[f]]
    /\ repeat' = (clean /\ FieldsOf(object) = d)
    /\ updateGVR' = groupVersionResourceFromUnstructured(UpdatedObjectKind)
    /\ upc' = "fetch"
    /\ steps' = DefaultRetrySteps
    /\ result' = NoObject
    /\ patchBytes' = EmptyPatch
    /\ ret' = "nil"
    /\ attemptErr' = "nil"
    /\ nFetch' = 0
    /\ nPatch' = 0
    /\ nConflict' = 0
    /\ clean' = TRUE
    /\ UNCHANGED stored

\* The first half of an attempt with a Get in the first attempt only: a
\* retry works on the copy the first attempt fetched.
UpdateFetchOnce(fault) ==
    /\ UpdateOnly
    /\ upc = "fetch"
    /\ nFetch' = nFetch + 1
    /\ IF fault = "get_failed"
       THEN /\ OnError("get_failed")
            /\ UNCHANGED <<result, object, patchBytes>>
       ELSE /\ result' = (IF nFetch = 0 THEN stored ELSE result)
            /\ IF fault = "marshal_orig_failed"
               THEN /\ OnError("marshal_orig_failed")
                    /\ UNCHANGED <<object, patchBytes>>
               ELSE /\ object' = SetResourceVersion(object, GetResourceVersion(result'))
                    /\ IF fault = "marshal_modified_failed"
                       THEN OnError("marshal_modified_failed") /\ UNCHANGED patchBytes
                       ELSE IF \/ fault = "patch_build_failed"
                               \/ ThreeWayConflict(result', object', result')
                       THEN OnError("patch_build_failed") /\ UNCHANGED patchBytes
                       ELSE /\ patchBytes' = CreateThreeWayJSONMergePatch(result', object', result')
                            /\ upc' = "patch"
                            /\ UNCHANGED <<ret, attemptErr, steps, clean>>
    /\ UNCHANGED <<stored, origRead, nPatch, nConflict, repeat, updateGVR>>

\* The first half of an attempt: Get, marshal, SetResourceVersion, patch
\* construction.  fault is what goes wrong in it, if anything.
UpdateFetch(fault) ==
    /\ UpdateOnly
    /\ upc = "fetch"
    /\ nFetch' = nFetch + 1
    /\ IF fault = "get_failed"
       THEN /\ OnError("get_failed")
            /\ UNCHANGED <<result, object, patchBytes>>
       ELSE /\ result' = stored
            /\ IF fault = "marshal_orig_failed"
               THEN /\ OnError("marshal_orig_failed")
                    /\ UNCHANGED <<object, patchBytes>>
               ELSE /\ object' = SetResourceVersion(object, GetResourceVersion(stored))
                    /\ IF fault = "marshal_modified_failed"
                       THEN OnError("marshal_modified_failed") /\ UNCHANGED patchBytes
                       ELSE IF \/ fault = "patch_build_failed"
                               \/ ThreeWayConflict(stored, object', stored)
                       THEN OnError("patch_build_failed") /\ UNCHANGED patchBytes
                       ELSE /\ patchBytes' = CreateThreeWayJSONMergePatch(stored, object', stored)
                            /\ upc' = "patch"
                            /\ UNCHANGED <<ret, attemptErr, steps, clean>>
    /\ UNCHANGED <<stored, origRead, nPatch, nConflict, repeat, updateGVR>>

\* The second half of an attempt: the merge-patch write.  outcome is the
\* server's answer; a patch that names a stale version token is a conflict.
UpdatePatch(outcome) ==
    /\ UpdateOnly
    /\ upc = "patch"
    /\ nPatch' = nPatch + 1
    /\ LET stale == patchBytes[ResourceVersion] \notin {Absent, stored[ResourceVersion]}
           new == ApplyMergePatch(stored, patchBytes)
           changes == FieldsOf(new) # FieldsOf(stored)
       IN  IF outcome = "ok" /\ ~stale
           THEN /\ changes => stored[ResourceVersion] < MaxResourceVersion
                /\ stored' = IF changes
                             THEN SetResourceVersion(new, stored[ResourceVersion] + 1)
                             ELSE stored
                /\ nConflict' = nConflict
                /\ OnError("nil")
           ELSE IF outcome = "conflict" \/ stale
           THEN /\ nConflict' = nConflict + 1
                /\ OnError("conflict")
                /\ UNCHANGED stored
           ELSE /\ OnError("patch_failed")
                /\ UNCHANGED <<stored, nConflict>>
    /\ UNCHANGED <<origRead, object, result, patchBytes, nFetch, repeat, updateGVR>>

FetchFaults == {"none", "get_failed", "marshal_orig_failed",
                "marshal_modified_failed", "patch_build_failed"}
PatchOutcomes == {"ok", "conflict", "error"}

InitUpdate ==
    /\ stored = InitialObject
    /\ origRead = InitialObject
    /\ object = NoObject
    /\ upc = "idle"
    /\ steps = DefaultRetrySteps
    /\ result = NoObject
    /\ patchBytes = EmptyPatch
    /\ ret = "nil"
    /\ attemptErr = "nil"
    /\ nFetch = 0
    /\ nPatch = 0
    /\ nConflict = 0
    /\ clean = FALSE
    /\ repeat = FALSE
    /\ updateGVR = NoGVR

NextUpdate ==
    \/ \E f \in Fields, v \in StoredVals : OtherWrite(f, v)
    \/ \E d \in [Fields -> DesiredVals] : UpdateCall(d)
    \/ \E fault \in FetchFaults : UpdateFetch(fault)
    \/ \E outcome \in PatchOutcomes : UpdatePatch(outcome)


(***************************************************************************)
(* The control plane's resource catalog: what ServerGroupsAndResources     *)
(* returns, a list of APIResourceList.                                     *)
(***************************************************************************)
CoreV1 ==
    [GroupVersion |-> <<"v", "1">>,
     APIResources |->
        << [Name |-> <<"p", "o", "d", "s">>, Kind |-> <<"P", "o", "d">>],
           [Name |-> <<"p", "o", "d", "s", "/", "e", "v">>,
            Kind |-> <<"E", "v">>] >>]

BatchV1 ==
    [GroupVersion |-> <<"b", "/", "v", "1">>,
     APIResources |->
        << [Name |-> <<"j", "o", "b", "s">>, Kind |-> <<"J", "o", "b">>] >>]

BatchV2 ==
    [GroupVersion |-> <<"b", "/", "v", "2">>,
     APIResources |->
        << [Name |-> <<"j", "o", "b", "s">>, Kind |-> <<"J", "o", "b">>] >>]

\* Another group that serves a resource of kind Job.
OtherV1 ==
    [GroupVersion |-> <<"c", "/", "v", "1">>,
     APIResources |->
        << [Name |-> <<"j", "o", "b", "s">>, Kind |-> <<"J", "o", "b">>] >>]

\* A group-version string ParseGroupVersion rejects.
Malformed ==
    [GroupVersion |-> <<"a", "/", "b", "/", "c">>,
     APIResources |->
        << [Name |-> <<"w", "s">>, Kind |-> <<"W">>] >>]

\* The catalogs the control plane serves over time.
Catalogs ==
    << <<CoreV1, BatchV1>>,
       <<CoreV1>>,
       <<CoreV1, Malformed, BatchV1>>,
       <<BatchV1, BatchV2>>,
       <<BatchV1, BatchV2, OtherV1>> >>

\* The kind strings requests ask for.
RequestKinds ==
    { <<"p", "o", "d">>, <<"P", "o", "d">>, <<"p", "o", "d", "s", ".">>,
      <<"j", "o", "b">>, <<"j", "o", "b", "s", ".", "b">>,
      <<"e", "v">>, <<"w">>, <<"n", "o", "n", "e">> }

(***************************************************************************)
(* resourceVerber.groupVersionResourceFromKind and                         *)
(* buildGroupVersionResourceCache.                                         *)
(***************************************************************************)
\* (gvr, nil)
Found(gvr) == [gvr |-> gvr, err |-> "nil", kind |-> <<>>]

\* (schema.GroupVersionResource{}, err) for an error of the catalog or of
\* the rebuild
Failed(err) == [gvr |-> NoGVR, err |-> err, kind |-> <<>>]

\* The not-found error, broken: it does not name the requested kind.
NotFoundUnnamed(kind) == [gvr |-> NoGVR, err |-> "not_found", kind |-> <<>>]

\* fmt.Errorf("could not find GVR for kind %s", kind)
NotFound(kind) == [gvr |-> NoGVR, err |-> "not_found", kind |-> kind]

\* A map assignment, broken: only the assigned key is kept.
MapSetEvicting(m, k, v) == [x \in {k} |-> v]

\* A map assignment, broken: assigning a key the value it holds removes it.
MapSetToggling(m, k, v) ==
    IF k \in DOMAIN m /\ m[k] = v
    THEN [x \in DOMAIN m \ {k} |-> m[x]]
    ELSE [x \in DOMAIN m \cup {k} |-> IF x = k THEN v ELSE m[x]]

\* A map assignment, broken: a key that is present keeps its value.
MapSetKeeping(m, k, v) ==
    [x \in DOMAIN m \cup {k} |-> IF x \in DOMAIN m THEN m[x] ELSE v]

\* The map with key k set to v.
MapSet(m, k, v) == [x \in DOMAIN m \cup {k} |-> IF x = k THEN v ELSE m[x]]

\* buildGroupVersionResourceCache's inner loop, broken: only the lower-cased
\* kind is inserted.
RECURSIVE InsertResourcesKindOnly(_, _, _, _)
InsertResourcesKindOnly(m, gv, apis, i) ==
    IF i > Len(apis) THEN m
    ELSE LET apiResource == apis[i]
             gvr == [Group |-> gv.Group, Version |-> gv.Version,
                     Resource |-> apiResource.Name]
         IN  IF Contains(apiResource.Name, Slash)
             THEN InsertResourcesKindOnly(m, gv, apis, i + 1)
             ELSE InsertResourcesKindOnly(
                      MapSet(m, ToLower(apiResource.Kind), gvr), gv, apis, i + 1)

\* The inner loop of buildGroupVersionResourceCache over the resources
\* apis[i..] of one group-version gv, writing into the map m.
RECURSIVE InsertResources(_, _, _, _)
InsertResources(m, gv, apis, i) ==
    IF i > Len(apis) THEN m
    ELSE LET apiResource == apis[i]
             crdKind == CrdKind(apiResource.Name, gv.Group)
             gvr == [Group |-> gv.Group, Version |-> gv.Version,
                     Resource |-> apiResource.Name]
         IN  IF Contains(apiResource.Name, Slash)
             THEN InsertResources(m, gv, apis, i + 1)
             ELSE InsertResources(
                      MapSet(MapSet(m, ToLower(apiResource.Kind), gvr), crdKind, gvr),
                      gv, apis, i + 1)

\* buildGroupVersionResourceCache(resourceList) from list i on, writing into
\* the map m: the map it leaves and whether it returned an error.
RECURSIVE BuildCache(_, _, _)
BuildCache(m, lists, i) ==
    IF i > Len(lists) THEN [cache |-> m, ok |-> TRUE]
    ELSE LET gv == ParseGroupVersion(lists[i].GroupVersion)
         IN  IF ~gv.ok THEN [cache |-> m, ok |-> FALSE]
             ELSE BuildCache(InsertResources(m, gv, lists[i].APIResources, 1),
                             lists, i + 1)

\* The control plane starts serving another catalog.
CatalogChange(c) ==
    /\ ResolveOnly
    /\ c # catalog
    /\ catalog' = c
    /\ UNCHANGED <<kindToGroupVersionResource, rpc, rkind, resourceList, rret,
                   nEnum, nBuild, nCheck>>

\* groupVersionResourceFromKind(kind) up to the first look at the cache, as
\* its caller starts it.
ResolveBegin(kind) ==
    /\ rpc \in {"idle", "done"}
    /\ rkind' = kind
    /\ resourceList' = <<>>
    /\ nEnum' = 0
    /\ nBuild' = 0
    /\ nCheck' = 0
    /\ IF kind \in DOMAIN kindToGroupVersionResource
       THEN rpc' = "done" /\ rret' = Found(kindToGroupVersionResource[kind])
       ELSE rpc' = "enumerate" /\ rret' = Failed("pending")
    /\ UNCHANGED <<catalog, kindToGroupVersionResource>>

\* groupVersionResourceFromKind(kind), called on its own.
ResolveCall(kind) == ResolveOnly /\ ResolveBegin(kind)

\* ServerGroupsAndResources, broken: a failed enumeration is tried again.
ResolveEnumerateRetried(ok) ==
    /\ ResolveOnly
    /\ rpc = "enumerate"
    /\ nEnum < 3
    /\ nEnum' = nEnum + 1
    /\ IF ok
       THEN /\ resourceList' = Catalogs[catalog]
            /\ rpc' = "build"
            /\ rret' = rret
       ELSE /\ rpc' = "enumerate"
            /\ rret' = rret
            /\ resourceList' = resourceList
    /\ UNCHANGED <<catalog, kindToGroupVersionResource, rkind, nBuild, nCheck>>

\* v.discovery.ServerGroupsAndResources(): the catalog, or an error.
ResolveEnumerate(ok) ==
    /\ ResolveOnly
    /\ rpc = "enumerate"
    /\ nEnum' = nEnum + 1
    /\ IF ok
       THEN /\ resourceList' = Catalogs[catalog]
            /\ rpc' = "build"
            /\ rret' = rret
       ELSE /\ rpc' = "done"
            /\ rret' = Failed("catalog_unavailable")
            /\ resourceList' = resourceList
    /\ UNCHANGED <<catalog, kindToGroupVersionResource, rkind, nBuild, nCheck>>

\* v.buildGroupVersionResourceCache(resourceList)
ResolveBuild ==
    /\ ResolveOnly
    /\ rpc = "build"
    /\ nBuild' = nBuild + 1
    /\ LET built == BuildCache(kindToGroupVersionResource, resourceList, 1)
       IN  /\ kindToGroupVersionResource' = built.cache
           /\ IF built.ok
              THEN rpc' = "recheck" /\ rret' = rret
              ELSE rpc' = "done" /\ rret' = Failed("parse_failed")
    /\ UNCHANGED <<catalog, rkind, resourceList, nEnum, nCheck>>

\* The second look at the cache, broken: the rebuilt cache is not read.
ResolveRecheckSkipped ==
    /\ ResolveOnly
    /\ rpc = "recheck"
    /\ nCheck' = nCheck + 1
    /\ rpc' = "done"
    /\ rret' = NotFound(rkind)
    /\ UNCHANGED <<catalog, kindToGroupVersionResource, rkind, resourceList,
                   nEnum, nBuild>>

\* The second look at the cache, after the rebuild.
ResolveRecheck ==
    /\ ResolveOnly
    /\ rpc = "recheck"
    /\ nCheck' = nCheck + 1
    /\ rpc' = "done"
    /\ rret' = IF rkind \in DOMAIN kindToGroupVersionResource
               THEN Found(kindToGroupVersionResource[rkind])
               ELSE NotFound(rkind)
    /\ UNCHANGED <<catalog, kindToGroupVersionResource, rkind, resourceList,
                   nEnum, nBuild>>

InitResolve ==
    /\ catalog = 1
    /\ kindToGroupVersionResource = << >>
    /\ rpc = "idle"
    /\ rkind = <<>>
    /\ resourceList = <<>>
    /\ rret = Failed("pending")
    /\ nEnum = 0
    /\ nBuild = 0
    /\ nCheck = 0

NextResolve ==
    \/ \E c \in 1..Len(Catalogs) : CatalogChange(c)
    \/ \E kind \in RequestKinds : ResolveCall(kind)
    \/ \E ok \in BOOLEAN : ResolveEnumerate(ok)
    \/ ResolveBuild
    \/ ResolveRecheck

(***************************************************************************)
(* resourceVerber.Get, Delete and Create.  Get and Delete resolve the      *)
(* kind with groupVersionResourceFromKind and then send one request;       *)
(* Create takes the coordinate from the object.                            *)
(***************************************************************************)
\* A nil pointer in the request options.
Unset == -1

\* metav1.DeletePropagationForeground
DeletePropagationForeground == "Foreground"

\* gracePeriodSeconds := int64(1)
GracePeriodSeconds == 1

\* metav1.GetOptions{}, metav1.CreateOptions{}
NoOptions == [PropagationPolicy |-> "", GracePeriodSeconds |-> Unset]

\* Delete's options, broken: the grace period is set whatever deleteNow is.
DeleteOptionsAlwaysNow(now) ==
    [PropagationPolicy |-> DeletePropagationForeground,
     GracePeriodSeconds |-> GracePeriodSeconds]

\* defaultDeleteOptions as Delete builds it from deleteNow.
DeleteOptions(now) ==
    [PropagationPolicy |-> DeletePropagationForeground,
     GracePeriodSeconds |-> IF now THEN GracePeriodSeconds ELSE Unset]

\* A request to the resource API.
Request(v, coordinate, options) ==
    [verb |-> v, gvr |-> coordinate, options |-> options]

\* The error a verb returns: "nil" for none; kind is the kind the
\* resolver's not-found error names.
VerbError(err, kind) == [err |-> err, kind |-> kind]

\* What the resource API answers to a Get, a Delete and a Create.
GetAnswers == {"nil", "api_not_found", "api_error"}
DeleteAnswers == {"nil", "api_not_found", "api_error"}
CreateAnswers == {"nil", "api_already_exists"}

\* Get(kind, namespace, name) up to the first look at the cache.
GetCall(kind) ==
    /\ VerberOnly
    /\ vpc \in {"idle", "done"}
    /\ ResolveBegin(kind)
    /\ vpc' = "resolve"
    /\ verb' = "Get"
    /\ sent' = << >>
    /\ vret' = VerbError("pending", << >>)
    /\ UNCHANGED <<deleteNow, vobject>>

\* Delete(kind, namespace, name, deleteNow) up to the first look at the
\* cache.
DeleteCall(kind, now) ==
    /\ VerberOnly
    /\ vpc \in {"idle", "done"}
    /\ ResolveBegin(kind)
    /\ vpc' = "resolve"
    /\ verb' = "Delete"
    /\ deleteNow' = now
    /\ sent' = << >>
    /\ vret' = VerbError("pending", << >>)
    /\ UNCHANGED vobject

\* Get after the resolver has returned, broken: the fetch is sent whatever
\* the resolver returned.
GetFetchAlways(answer) ==
    /\ VerberOnly
    /\ vpc = "resolve" /\ verb = "Get" /\ rpc = "done"
    /\ sent' = Append(sent, Request("get", rret.gvr, NoOptions))
    /\ vret' = VerbError(answer, << >>)
    /\ vpc' = "done"
    /\ UNCHANGED <<resolveVars, verb, deleteNow, vobject>>

\* Get after the resolver has returned: its error, or the fetch and the
\* API's answer.
GetFetch(answer) ==
    /\ VerberOnly
    /\ vpc = "resolve" /\ verb = "Get" /\ rpc = "done"
    /\ IF rret.err # "nil"
       THEN /\ vret' = VerbError(rret.err, rret.kind)
            /\ UNCHANGED sent
       ELSE /\ sent' = Append(sent, Request("get", rret.gvr, NoOptions))
            /\ vret' = VerbError(answer, << >>)
    /\ vpc' = "done"
    /\ UNCHANGED <<resolveVars, verb, deleteNow, vobject>>

\* Delete after the resolver has returned: its error, or the delete
\* request and the API's answer.
DeleteSend(answer) ==
    /\ VerberOnly
    /\ vpc = "resolve" /\ verb = "Delete" /\ rpc = "done"
    /\ IF rret.err # "nil"
       THEN /\ vret' = VerbError(rret.err, rret.kind)
            /\ UNCHANGED sent
       ELSE /\ sent' = Append(sent, Request("delete", rret.gvr, DeleteOptions(deleteNow)))
            /\ vret' = VerbError(answer, << >>)
    /\ vpc' = "done"
    /\ UNCHANGED <<resolveVars, verb, deleteNow, vobject>>

\* Create(object) for an object of GroupVersionKind gvk.
Create(gvk, answer) ==
    /\ VerberOnly
    /\ vpc \in {"idle", "done"}
    /\ verb' = "Create"
    /\ vobject' = gvk
    /\ sent' = <<Request("create", groupVersionResourceFromUnstructured(gvk), NoOptions)>>
    /\ vret' = VerbError(answer, << >>)
    /\ vpc' = "done"
    /\ UNCHANGED <<resolveVars, deleteNow>>

InitVerber ==
    /\ vpc = "idle"
    /\ verb = "Get"
    /\ deleteNow = FALSE
    /\ vobject = PodV1
    /\ sent = << >>
    /\ vret = VerbError("nil", << >>)

\* The kinds Get and Delete are called with.
VerbKinds ==
    { <<"p", "o", "d">>, <<"j", "o", "b">>,
      <<"n", "o", "n", "e">> }

\* The payload Update is called with next to the other verbs.
UpdatePayload == [f \in Fields |-> IF f = "spec" THEN 2 ELSE 1]

\* The four verbs over one coordinate cache, the catalog changing between
\* their steps.
NextVerber ==
    \/ \E c \in 1..Len(Catalogs) : CatalogChange(c)
    \/ \E kind \in VerbKinds : GetCall(kind)
    \/ \E kind \in VerbKinds, now \in BOOLEAN : DeleteCall(kind, now)
    \/ \E ok \in BOOLEAN : ResolveEnumerate(ok)
    \/ ResolveBuild
    \/ ResolveRecheck
    \/ \E answer \in GetAnswers : GetFetch(answer)
    \/ \E answer \in DeleteAnswers : DeleteSend(answer)
    \/ \E gvk \in ObjectKinds, answer \in CreateAnswers : Create(gvk, answer)
    \/ UpdateCall(UpdatePayload)
    \/ \E fault \in {"none", "get_failed"} : UpdateFetch(fault)
    \/ UpdatePatch("ok")

(***************************************************************************)
(* The cluster client registry: InitKarmadaConfig and                      *)
(* InClusterClientForMemberCluster, called by concurrent requests.         *)
(***************************************************************************)
\* The requests that run at the same time.
Requests == {1, 2}

ClusterNames == {"member1", "member2"}

\* The address of the control plane in the kubeconfig.
KarmadaHost == "https://karmada"

\* fmt.Sprintf(proxyURL, clusterName)
ProxyPath(clusterName) ==
    "/apis/cluster.karmada.io/v1alpha1/clusters/" \o clusterName \o "/proxy/"

NilConfig == [nil |-> TRUE, Host |-> ""]
NilClient == [id |-> 0, Host |-> "", builtFor |-> ""]

\* isKarmadaInitialized()
isKarmadaInitialized == ~(karmadaRestConfig.nil \/ karmadaAPIConfig.nil)

\* InitKarmadaConfig(options...) with a kubeconfig that loads: the rest
\* config, the API config and the member config, each built on its own.
InitKarmadaConfig ==
    /\ RegistryOnly
    /\ karmadaRestConfig.nil
    /\ karmadaRestConfig' = [nil |-> FALSE, Host |-> KarmadaHost]
    /\ karmadaAPIConfig' = [nil |-> FALSE, Host |-> KarmadaHost]
    /\ karmadaMemberConfig' = [nil |-> FALSE, Host |-> KarmadaHost]
    /\ UNCHANGED <<inClusterClientForMemberAPIServer, memberClients,
                   constructed, mpc, mname, mclient, mret>>

\* InClusterClientForMemberCluster(clusterName) up to the initialization
\* check.
MemberCall(r, clusterName) ==
    /\ RegistryOnly
    /\ ~exited
    /\ mpc[r] \in {"idle", "done"}
    /\ mname' = [mname EXCEPT ![r] = clusterName]
    /\ mclient' = [mclient EXCEPT ![r] = NilClient]
    /\ mret' = [mret EXCEPT ![r] = NilClient]
    /\ mpc' = [mpc EXCEPT ![r] = IF isKarmadaInitialized THEN "load" ELSE "done"]
    /\ UNCHANGED <<karmadaRestConfig, karmadaAPIConfig, karmadaMemberConfig,
                   inClusterClientForMemberAPIServer, memberClients, constructed>>

\* memberClients.Load(clusterName), broken: an entry that exists is not
\* found.
MemberLoadMiss(r) ==
    /\ RegistryOnly
    /\ mpc[r] = "load"
    /\ mpc' = [mpc EXCEPT ![r] = "sethost"]
    /\ UNCHANGED <<karmadaRestConfig, karmadaAPIConfig, karmadaMemberConfig,
                   inClusterClientForMemberAPIServer, memberClients,
                   constructed, mname, mclient, mret>>

\* memberClients.Load(clusterName): a hit assigns the value to the
\* package-level variable.
MemberLoad(r) ==
    /\ RegistryOnly
    /\ mpc[r] = "load"
    /\ IF mname[r] \in DOMAIN memberClients
       THEN /\ inClusterClientForMemberAPIServer' = memberClients[mname[r]]
            /\ mpc' = [mpc EXCEPT ![r] = "ret"]
       ELSE /\ mpc' = [mpc EXCEPT ![r] = "sethost"]
            /\ UNCHANGED inClusterClientForMemberAPIServer
    /\ UNCHANGED <<karmadaRestConfig, karmadaAPIConfig, karmadaMemberConfig,
                   memberClients, constructed, mname, mclient, mret>>

\* The Host assignment, broken: memberConfig is the control plane's own
\* config, so the assignment rewrites the control plane's address and the
\* next call appends to the rewritten address.
MemberSetHostAliased(r) ==
    /\ RegistryOnly
    /\ mpc[r] = "sethost"
    /\ karmadaMemberConfig' =
          [karmadaMemberConfig EXCEPT !.Host = karmadaRestConfig.Host \o ProxyPath(mname[r])]
    /\ karmadaRestConfig' = karmadaMemberConfig'
    /\ mpc' = [mpc EXCEPT ![r] = "new"]
    /\ UNCHANGED <<karmadaAPIConfig,
                   inClusterClientForMemberAPIServer, memberClients,
                   constructed, mname, mclient, mret>>

\* GetKarmadaConfig, GetMemberConfig and
\* memberConfig.Host = restConfig.Host + fmt.Sprintf(proxyURL, clusterName):
\* memberConfig is the one karmadaMemberConfig every request shares.
MemberSetHost(r) ==
    /\ RegistryOnly
    /\ mpc[r] = "sethost"
    /\ karmadaMemberConfig' =
          [karmadaMemberConfig EXCEPT !.Host = karmadaRestConfig.Host \o ProxyPath(mname[r])]
    /\ mpc' = [mpc EXCEPT ![r] = "new"]
    /\ UNCHANGED <<karmadaRestConfig, karmadaAPIConfig,
                   inClusterClientForMemberAPIServer, memberClients,
                   constructed, mname, mclient, mret>>

\* c, err := kubeclient.NewForConfig(memberConfig): a client for the address
\* the shared config holds now, or an error and a nil return.
MemberNewClient(r, ok) ==
    /\ RegistryOnly
    /\ mpc[r] = "new"
    /\ IF ok
       THEN /\ Cardinality(constructed) < MaxClients
            /\ LET c == [id |-> Cardinality(constructed) + 1,
                         Host |-> karmadaMemberConfig.Host,
                         builtFor |-> mname[r]]
               IN  /\ constructed' = constructed \cup {c}
                   /\ mclient' = [mclient EXCEPT ![r] = c]
            /\ mpc' = [mpc EXCEPT ![r] = "setglobal"]
       ELSE /\ mpc' = [mpc EXCEPT ![r] = "done"]
            /\ UNCHANGED <<constructed, mclient>>
    /\ UNCHANGED <<karmadaRestConfig, karmadaAPIConfig, karmadaMemberConfig,
                   inClusterClientForMemberAPIServer, memberClients, mname, mret>>

\* inClusterClientForMemberAPIServer = c
MemberSetGlobal(r) ==
    /\ RegistryOnly
    /\ mpc[r] = "setglobal"
    /\ inClusterClientForMemberAPIServer' = mclient[r]
    /\ mpc' = [mpc EXCEPT ![r] = "store"]
    /\ UNCHANGED <<karmadaRestConfig, karmadaAPIConfig, karmadaMemberConfig,
                   memberClients, constructed, mname, mclient, mret>>

\* memberClients.Store(clusterName, inClusterClientForMemberAPIServer)
MemberStore(r) ==
    /\ RegistryOnly
    /\ mpc[r] = "store"
    /\ memberClients' =
          [n \in DOMAIN memberClients \cup {mname[r]} |->
              IF n = mname[r] THEN inClusterClientForMemberAPIServer
              ELSE memberClients[n]]
    /\ mpc' = [mpc EXCEPT ![r] = "ret"]
    /\ UNCHANGED <<karmadaRestConfig, karmadaAPIConfig, karmadaMemberConfig,
                   inClusterClientForMemberAPIServer, constructed, mname,
                   mclient, mret>>

\* return inClusterClientForMemberAPIServer
MemberReturn(r) ==
    /\ RegistryOnly
    /\ mpc[r] = "ret"
    /\ mret' = [mret EXCEPT ![r] = inClusterClientForMemberAPIServer]
    /\ mpc' = [mpc EXCEPT ![r] = "done"]
    /\ UNCHANGED <<karmadaRestConfig, karmadaAPIConfig, karmadaMemberConfig,
                   inClusterClientForMemberAPIServer, memberClients,
                   constructed, mname, mclient>>

InitRegistry ==
    /\ karmadaRestConfig = NilConfig
    /\ karmadaAPIConfig = NilConfig
    /\ karmadaMemberConfig = NilConfig
    /\ inClusterClientForMemberAPIServer = NilClient
    /\ memberClients = [n \in {} |-> NilClient]
    /\ constructed = {}
    /\ mpc = [r \in Requests |-> "idle"]
    /\ mname = [r \in Requests |-> "member1"]
    /\ mclient = [r \in Requests |-> NilClient]
    /\ mret = [r \in Requests |-> NilClient]

NextRegistry ==
    \/ InitKarmadaConfig
    \/ \E r \in Requests, clusterName \in ClusterNames : MemberCall(r, clusterName)
    \/ \E r \in Requests : MemberLoad(r)
    \/ \E r \in Requests : MemberSetHost(r)
    \/ \E r \in Requests, ok \in BOOLEAN : MemberNewClient(r, ok)
    \/ \E r \in Requests : MemberSetGlobal(r)
    \/ \E r \in Requests : MemberStore(r)
    \/ \E r \in Requests : MemberReturn(r)

(***************************************************************************)
(* groupVersionResourceFromKind called by requests that run at the same    *)
(* time.  kindToGroupVersionResource is a plain Go map that nothing        *)
(* guards.  An assignment m[k] = v is two steps: runtime.mapassign makes   *)
(* room for the key (a new key appears with the zero value) and then the   *)
(* value is stored.  A map access by another goroutine while an            *)
(* assignment is under way is a data race: the runtime may end the process *)
(* with "concurrent map read and map write" / "concurrent map writes", or  *)
(* the access goes through on the map as it is at that moment.             *)
(***************************************************************************)
\* The assignments the inner loop of buildGroupVersionResourceCache makes
\* for the resources apis[j..] of group-version gv, in order.
RECURSIVE ResourceAssignments(_, _, _)
ResourceAssignments(gv, apis, j) ==
    IF j > Len(apis) THEN << >>
    ELSE LET apiResource == apis[j]
             coordinate == [Group |-> gv.Group, Version |-> gv.Version,
                            Resource |-> apiResource.Name]
         IN  IF Contains(apiResource.Name, Slash)
             THEN ResourceAssignments(gv, apis, j + 1)
             ELSE << <<ToLower(apiResource.Kind), coordinate>>,
                     <<CrdKind(apiResource.Name, gv.Group), coordinate>> >>
                  \o ResourceAssignments(gv, apis, j + 1)

\* The assignments buildGroupVersionResourceCache makes for lists[i..], up
\* to the first group-version that does not parse.
RECURSIVE Assignments(_, _)
Assignments(lists, i) ==
    IF i > Len(lists) THEN << >>
    ELSE LET gv == ParseGroupVersion(lists[i].GroupVersion)
         IN  IF ~gv.ok THEN << >>
             ELSE ResourceAssignments(gv, lists[i].APIResources, 1)
                  \o Assignments(lists, i + 1)

\* What a map access that races with an assignment can do.
RaceOutcomes == {"fatal", "proceeds"}

\* Another goroutine is in the middle of an assignment.
Racing(p) == writing \ {p} # {}

\* The kinds the concurrent requests ask for.
ConcurrentKinds == { <<"j", "o", "b">>, <<"n", "o", "n", "e">> }

\* groupVersionResourceFromKind(kind) is called by request p.
ConcCall(p, kind) ==
    /\ ConcurrentOnly
    /\ ~fatal
    /\ cpc[p] \in {"idle", "done"}
    /\ cpc' = [cpc EXCEPT ![p] = "lookup"]
    /\ ckind' = [ckind EXCEPT ![p] = kind]
    /\ clist' = [clist EXCEPT ![p] = << >>]
    /\ cnext' = [cnext EXCEPT ![p] = 1]
    /\ cret' = [cret EXCEPT ![p] = Failed("pending")]
    /\ UNCHANGED <<kindToGroupVersionResource, writing, fatal>>

\* The first look at the cache.
ConcLookup(p, outcome) ==
    /\ ConcurrentOnly
    /\ ~fatal
    /\ cpc[p] = "lookup"
    /\ IF Racing(p) /\ outcome = "fatal"
       THEN fatal' = TRUE /\ UNCHANGED <<cpc, cret>>
       ELSE /\ IF ckind[p] \in DOMAIN kindToGroupVersionResource
               THEN /\ cpc' = [cpc EXCEPT ![p] = "done"]
                    /\ cret' = [cret EXCEPT ![p] = Found(kindToGroupVersionResource[ckind[p]])]
               ELSE /\ cpc' = [cpc EXCEPT ![p] = "enumerate"]
                    /\ UNCHANGED cret
            /\ UNCHANGED fatal
    /\ UNCHANGED <<kindToGroupVersionResource, ckind, clist, cnext, writing>>

\* v.discovery.ServerGroupsAndResources() in request p.
ConcEnumerate(p, ok) ==
    /\ ConcurrentOnly
    /\ ~fatal
    /\ cpc[p] = "enumerate"
    /\ IF ok
       THEN /\ clist' = [clist EXCEPT ![p] = Catalogs[catalog]]
            /\ cpc' = [cpc EXCEPT ![p] = "build"]
            /\ UNCHANGED cret
       ELSE /\ cpc' = [cpc EXCEPT ![p] = "done"]
            /\ cret' = [cret EXCEPT ![p] = Failed("catalog_unavailable")]
            /\ UNCHANGED clist
    /\ UNCHANGED <<kindToGroupVersionResource, ckind, cnext, writing, fatal>>

\* Request p starts its next assignment to the map.
ConcAssignBegin(p, outcome) ==
    /\ ConcurrentOnly
    /\ ~fatal
    /\ cpc[p] = "build" /\ p \notin writing
    /\ cnext[p] <= Len(Assignments(clist[p], 1))
    /\ IF Racing(p) /\ outcome = "fatal"
       THEN fatal' = TRUE /\ UNCHANGED <<kindToGroupVersionResource, writing>>
       ELSE /\ LET k == Assignments(clist[p], 1)[cnext[p]][1]
               IN  kindToGroupVersionResource' =
                      IF k \in DOMAIN kindToGroupVersionResource
                      THEN kindToGroupVersionResource
                      ELSE MapSet(kindToGroupVersionResource, k, NoGVR)
            /\ writing' = writing \cup {p}
            /\ UNCHANGED fatal
    /\ UNCHANGED <<cpc, ckind, clist, cnext, cret>>

\* Request p stores the value of the assignment it started.
ConcAssignEnd(p) ==
    /\ ConcurrentOnly
    /\ ~fatal
    /\ cpc[p] = "build" /\ p \in writing
    /\ LET a == Assignments(clist[p], 1)[cnext[p]]
       IN  kindToGroupVersionResource' = MapSet(kindToGroupVersionResource, a[1], a[2])
    /\ writing' = writing \ {p}
    /\ cnext' = [cnext EXCEPT ![p] = cnext[p] + 1]
    /\ UNCHANGED <<cpc, ckind, clist, cret, fatal>>

\* buildGroupVersionResourceCache returns in request p.
ConcBuilt(p) ==
    /\ ConcurrentOnly
    /\ ~fatal
    /\ cpc[p] = "build" /\ p \notin writing
    /\ cnext[p] > Len(Assignments(clist[p], 1))
    /\ IF BuildCache(<< >>, clist[p], 1).ok
       THEN cpc' = [cpc EXCEPT ![p] = "recheck"] /\ UNCHANGED cret
       ELSE /\ cpc' = [cpc EXCEPT ![p] = "done"]
            /\ cret' = [cret EXCEPT ![p] = Failed("parse_failed")]
    /\ UNCHANGED <<kindToGroupVersionResource, ckind, clist, cnext, writing, fatal>>

\* The second look at the cache.
ConcRecheck(p, outcome) ==
    /\ ConcurrentOnly
    /\ ~fatal
    /\ cpc[p] = "recheck"
    /\ IF Racing(p) /\ outcome = "fatal"
       THEN fatal' = TRUE /\ UNCHANGED <<cpc, cret>>
       ELSE /\ cpc' = [cpc EXCEPT ![p] = "done"]
            /\ cret' = [cret EXCEPT ![p] =
                          IF ckind[p] \in DOMAIN kindToGroupVersionResource
                          THEN Found(kindToGroupVersionResource[ckind[p]])
                          ELSE NotFound(ckind[p])]
            /\ UNCHANGED fatal
    /\ UNCHANGED <<kindToGroupVersionResource, ckind, clist, cnext, writing>>

InitConcurrent ==
    /\ cpc = [p \in Requests |-> "idle"]
    /\ ckind = [p \in Requests |-> << >>]
    /\ clist = [p \in Requests |-> << >>]
    /\ cnext = [p \in Requests |-> 1]
    /\ cret = [p \in Requests |-> Failed("pending")]
    /\ writing = {}
    /\ fatal = FALSE

NextConcurrent ==
    \/ \E p \in Requests, kind \in ConcurrentKinds : ConcCall(p, kind)
    \/ \E p \in Requests, outcome \in RaceOutcomes : ConcLookup(p, outcome)
    \/ \E p \in Requests, ok \in BOOLEAN : ConcEnumerate(p, ok)
    \/ \E p \in Requests, outcome \in RaceOutcomes : ConcAssignBegin(p, outcome)
    \/ \E p \in Requests : ConcAssignEnd(p)
    \/ \E p \in Requests : ConcBuilt(p)
    \/ \E p \in Requests, outcome \in RaceOutcomes : ConcRecheck(p, outcome)

(***************************************************************************)
(* The other getters of the registry: InClusterKarmadaClient,              *)
(* InClusterClientForKarmadaAPIServer, GetKarmadaConfig, GetMemberConfig   *)
(* and VerberClient.  Each runs to its return in one step of the request   *)
(* that calls it.                                                          *)
(***************************************************************************)
\* What the last getter call returned: the getter, whether the package was
\* initialized when it was called, and the client and the error returned.
Returned(getter, client, err) ==
    [getter |-> getter, initialized |-> isKarmadaInitialized,
     client |-> client, err |-> err]

\* fmt.Errorf("client package not initialized")
NotInitialized == "client package not initialized"

\* The client a successful NewForConfig builds for the control plane.
NewKarmadaClient(kind) ==
    [id |-> Cardinality(constructed) + 1, Host |-> karmadaRestConfig.Host,
     builtFor |-> kind]

\* InClusterKarmadaClient(): nil before initialization, the cached client,
\* or a new one; the process exits when NewForConfig fails.
InClusterKarmadaClient(r, ok) ==
    /\ GetterOnly
    /\ ~exited
    /\ mpc[r] \in {"idle", "done"}
    /\ IF ~isKarmadaInitialized
       THEN /\ glast' = Returned("InClusterKarmadaClient", NilClient, "nil")
            /\ UNCHANGED <<inClusterKarmadaClient, constructed, exited>>
       ELSE IF inClusterKarmadaClient # NilClient
       THEN /\ glast' = Returned("InClusterKarmadaClient", inClusterKarmadaClient, "nil")
            /\ UNCHANGED <<inClusterKarmadaClient, constructed, exited>>
       ELSE IF ok
       THEN /\ Cardinality(constructed) < MaxClients
            /\ inClusterKarmadaClient' = NewKarmadaClient("karmada")
            /\ constructed' = constructed \cup {NewKarmadaClient("karmada")}
            /\ glast' = Returned("InClusterKarmadaClient", NewKarmadaClient("karmada"), "nil")
            /\ UNCHANGED exited
       ELSE /\ exited' = TRUE
            /\ glast' = Returned("InClusterKarmadaClient", NilClient, "exit")
            /\ UNCHANGED <<inClusterKarmadaClient, constructed>>
    /\ UNCHANGED <<karmadaRestConfig, karmadaAPIConfig, karmadaMemberConfig,
                   inClusterClientForMemberAPIServer, memberClients,
                   mpc, mname, mclient, mret, inClusterClientForKarmadaAPIServer>>

\* InClusterClientForKarmadaAPIServer(): nil before initialization, the
\* cached client, or a new one; nil when NewForConfig fails.
InClusterClientForKarmadaAPIServer(r, ok) ==
    /\ GetterOnly
    /\ ~exited
    /\ mpc[r] \in {"idle", "done"}
    /\ IF ~isKarmadaInitialized
       THEN /\ glast' = Returned("InClusterClientForKarmadaAPIServer", NilClient, "nil")
            /\ UNCHANGED <<inClusterClientForKarmadaAPIServer, constructed>>
       ELSE IF inClusterClientForKarmadaAPIServer # NilClient
       THEN /\ glast' = Returned("InClusterClientForKarmadaAPIServer",
                                 inClusterClientForKarmadaAPIServer, "nil")
            /\ UNCHANGED <<inClusterClientForKarmadaAPIServer, constructed>>
       ELSE IF ok
       THEN /\ Cardinality(constructed) < MaxClients
            /\ inClusterClientForKarmadaAPIServer' = NewKarmadaClient("karmada-apiserver")
            /\ constructed' = constructed \cup {NewKarmadaClient("karmada-apiserver")}
            /\ glast' = Returned("InClusterClientForKarmadaAPIServer",
                                 NewKarmadaClient("karmada-apiserver"), "nil")
       ELSE /\ glast' = Returned("InClusterClientForKarmadaAPIServer", NilClient, "nil")
            /\ UNCHANGED <<inClusterClientForKarmadaAPIServer, constructed>>
    /\ UNCHANGED <<karmadaRestConfig, karmadaAPIConfig, karmadaMemberConfig,
                   inClusterClientForMemberAPIServer, memberClients,
                   mpc, mname, mclient, mret, inClusterKarmadaClient, exited>>

\* GetKarmadaConfig(): the two configs, or an error before initialization.
GetKarmadaConfig(r) ==
    /\ GetterOnly
    /\ ~exited
    /\ mpc[r] \in {"idle", "done"}
    /\ glast' = Returned("GetKarmadaConfig", NilClient,
                         IF isKarmadaInitialized THEN "nil" ELSE NotInitialized)
    /\ UNCHANGED <<registryVars, inClusterKarmadaClient,
                   inClusterClientForKarmadaAPIServer, exited>>

\* GetMemberConfig(): the member config, or an error before initialization.
GetMemberConfig(r) ==
    /\ GetterOnly
    /\ ~exited
    /\ mpc[r] \in {"idle", "done"}
    /\ glast' = Returned("GetMemberConfig", NilClient,
                         IF isKarmadaInitialized THEN "nil" ELSE NotInitialized)
    /\ UNCHANGED <<registryVars, inClusterKarmadaClient,
                   inClusterClientForKarmadaAPIServer, exited>>

\* VerberClient(request): the error of GetKarmadaConfig, the error of one of
\* the two client constructors, or a resourceVerber built on new clients.
VerberClient(r, ok) ==
    /\ GetterOnly
    /\ ~exited
    /\ mpc[r] \in {"idle", "done"}
    /\ glast' = Returned("VerberClient", NilClient,
                         IF ~isKarmadaInitialized THEN NotInitialized
                         ELSE IF ok THEN "nil" ELSE "client_failed")
    /\ UNCHANGED <<registryVars, inClusterKarmadaClient,
                   inClusterClientForKarmadaAPIServer, exited>>

InitGetters ==
    /\ inClusterKarmadaClient = NilClient
    /\ inClusterClientForKarmadaAPIServer = NilClient
    /\ exited = FALSE
    /\ glast = [getter |-> "none", initialized |-> FALSE,
                client |-> NilClient, err |-> "nil"]

\* The one request whose calls follow each other.
Sequential == 1

\* The registry used by one request at a time: no two calls overlap.
NextRegistrySequential ==
    \/ InitKarmadaConfig
    \/ \E clusterName \in ClusterNames : MemberCall(Sequential, clusterName)
    \/ MemberLoad(Sequential)
    \/ MemberSetHost(Sequential)
    \/ \E ok \in BOOLEAN : MemberNewClient(Sequential, ok)
    \/ MemberSetGlobal(Sequential)
    \/ MemberStore(Sequential)
    \/ MemberReturn(Sequential)
    \/ \E ok \in BOOLEAN : InClusterKarmadaClient(Sequential, ok)
    \/ \E ok \in BOOLEAN : InClusterClientForKarmadaAPIServer(Sequential, ok)
    \/ GetKarmadaConfig(Sequential)
    \/ GetMemberConfig(Sequential)
    \/ \E ok \in BOOLEAN : VerberClient(Sequential, ok)

(***************************************************************************)
(* The initializers of the registry.  InitKubeConfig and InitKarmadaConfig *)
(* run at startup, one after the other; os.Exit ends the process in the    *)
(* middle of either.  Each load of the kubeconfig file is a step of its    *)
(* own, and the file may load at one step and fail at the next.            *)
(***************************************************************************)
\* The kubeconfig paths the options carry; "" is no WithKubeconfig option.
KubeconfigPaths == {"", "kube.config", "karmada.config"}

\* The address rest.InClusterConfig() reads from the pod's environment.
InClusterHost == "https://kubernetes.default.svc"

\* The address of the cluster the kubeconfig file at a path names.
FileHost(path) ==
    IF path = "karmada.config" THEN KarmadaHost ELSE "https://kubernetes"

\* An entry of tried: the credential source, "InClusterConfig" or
\* "kubeconfig", and whether it gave a config.
Tried(source, ok) == [source |-> source, ok |-> ok]

\* builder.buildRestConfig() and builder.buildAPIConfig(): an error without
\* a path, else what LoadRestConfig / LoadAPIConfig make of the file.
Builds(path, loads) == path # "" /\ loads

\* InitKubeConfig that never asks for the ambient identity.
InitKubeConfigFileOnly(path) ==
    /\ StartupOnly
    /\ ~exited
    /\ ipc \in {"idle", "done"}
    /\ initializer' = "InitKubeConfig"
    /\ kubeconfigPath' = path
    /\ tried' = <<>>
    /\ ipc' = "kube_rest"
    /\ UNCHANGED <<kubernetesRestConfig, kubernetesAPIConfig>>
    /\ UNCHANGED <<inCluster, karmadaRestConfig, karmadaAPIConfig,
                   karmadaMemberConfig, exited>>

\* InitKubeConfig(options...) up to the end of the branch of
\* rest.InClusterConfig(): with the ambient identity both configs are set
\* from it; without it the kubeconfig file is next.
InitKubeConfig(path) ==
    /\ StartupOnly
    /\ ~exited
    /\ ipc \in {"idle", "done"}
    /\ initializer' = "InitKubeConfig"
    /\ kubeconfigPath' = path
    /\ tried' = <<Tried("InClusterConfig", inCluster)>>
    /\ IF inCluster
       THEN /\ kubernetesRestConfig' = [nil |-> FALSE, Host |-> InClusterHost]
            /\ kubernetesAPIConfig' = [nil |-> FALSE, Host |-> InClusterHost]
            /\ ipc' = "done"
       ELSE /\ ipc' = "kube_rest"
            /\ UNCHANGED <<kubernetesRestConfig, kubernetesAPIConfig>>
    /\ UNCHANGED <<inCluster, karmadaRestConfig, karmadaAPIConfig,
                   karmadaMemberConfig, exited>>

\* restConfig, err = builder.buildRestConfig(); os.Exit(1) on an error, else
\* kubernetesRestConfig = restConfig.
InitKubeConfigRest(loads) ==
    /\ StartupOnly
    /\ ipc = "kube_rest"
    /\ IF Builds(kubeconfigPath, loads)
       THEN /\ kubernetesRestConfig' = [nil |-> FALSE, Host |-> FileHost(kubeconfigPath)]
            /\ ipc' = "kube_api"
            /\ UNCHANGED <<tried, exited>>
       ELSE /\ tried' = Append(tried, Tried("kubeconfig", FALSE))
            /\ exited' = TRUE
            /\ ipc' = "exit"
            /\ UNCHANGED kubernetesRestConfig
    /\ UNCHANGED <<kubernetesAPIConfig, inCluster, initializer, kubeconfigPath,
                   karmadaRestConfig, karmadaAPIConfig, karmadaMemberConfig>>

\* apiConfig, err := builder.buildAPIConfig(); os.Exit(1) on an error, else
\* kubernetesAPIConfig = apiConfig.
InitKubeConfigAPI(loads) ==
    /\ StartupOnly
    /\ ipc = "kube_api"
    /\ tried' = Append(tried, Tried("kubeconfig", Builds(kubeconfigPath, loads)))
    /\ IF Builds(kubeconfigPath, loads)
       THEN /\ kubernetesAPIConfig' = [nil |-> FALSE, Host |-> FileHost(kubeconfigPath)]
            /\ ipc' = "done"
            /\ UNCHANGED exited
       ELSE /\ exited' = TRUE
            /\ ipc' = "exit"
            /\ UNCHANGED kubernetesAPIConfig
    /\ UNCHANGED <<kubernetesRestConfig, inCluster, initializer, kubeconfigPath,
                   karmadaRestConfig, karmadaAPIConfig, karmadaMemberConfig>>

\* InitKarmadaConfig(options...) up to karmadaRestConfig = restConfig: the
\* first builder.buildRestConfig(), os.Exit(1) on an error.
InitKarmadaConfigRest(path, loads) ==
    /\ StartupOnly
    /\ ~exited
    /\ ipc \in {"idle", "done"}
    /\ initializer' = "InitKarmadaConfig"
    /\ kubeconfigPath' = path
    /\ IF Builds(path, loads)
       THEN /\ karmadaRestConfig' = [nil |-> FALSE, Host |-> FileHost(path)]
            /\ tried' = <<>>
            /\ ipc' = "karmada_api"
            /\ UNCHANGED exited
       ELSE /\ tried' = <<Tried("kubeconfig", FALSE)>>
            /\ exited' = TRUE
            /\ ipc' = "exit"
            /\ UNCHANGED karmadaRestConfig
    /\ UNCHANGED <<kubernetesRestConfig, kubernetesAPIConfig, inCluster,
                   karmadaAPIConfig, karmadaMemberConfig>>

\* apiConfig, err := builder.buildAPIConfig(); os.Exit(1) on an error, else
\* karmadaAPIConfig = apiConfig.
InitKarmadaConfigAPI(loads) ==
    /\ StartupOnly
    /\ ipc = "karmada_api"
    /\ IF Builds(kubeconfigPath, loads)
       THEN /\ karmadaAPIConfig' = [nil |-> FALSE, Host |-> FileHost(kubeconfigPath)]
            /\ ipc' = "karmada_member"
            /\ UNCHANGED <<tried, exited>>
       ELSE /\ tried' = Append(tried, Tried("kubeconfig", FALSE))
            /\ exited' = TRUE
            /\ ipc' = "exit"
            /\ UNCHANGED karmadaAPIConfig
    /\ UNCHANGED <<kubernetesRestConfig, kubernetesAPIConfig, inCluster,
                   initializer, kubeconfigPath, karmadaRestConfig,
                   karmadaMemberConfig>>

\* memberConfig, err := builder.buildRestConfig(); os.Exit(1) on an error,
\* else karmadaMemberConfig = memberConfig.
InitKarmadaConfigMember(loads) ==
    /\ StartupOnly
    /\ ipc = "karmada_member"
    /\ tried' = Append(tried, Tried("kubeconfig", Builds(kubeconfigPath, loads)))
    /\ IF Builds(kubeconfigPath, loads)
       THEN /\ karmadaMemberConfig' = [nil |-> FALSE, Host |-> FileHost(kubeconfigPath)]
            /\ ipc' = "done"
            /\ UNCHANGED exited
       ELSE /\ exited' = TRUE
            /\ ipc' = "exit"
            /\ UNCHANGED karmadaMemberConfig
    /\ UNCHANGED <<kubernetesRestConfig, kubernetesAPIConfig, inCluster,
                   initializer, kubeconfigPath, karmadaRestConfig,
                   karmadaAPIConfig>>

\* The state before either initializer has run.
InitConfigs ==
    /\ kubernetesRestConfig = NilConfig
    /\ kubernetesAPIConfig = NilConfig
    /\ ipc = "idle"
    /\ initializer = "none"
    /\ kubeconfigPath = ""
    /\ tried = <<>>

\* A process that has no ambient identity.
InitStartup == InitConfigs /\ inCluster = FALSE

\* The steps of the initializers, and a request that calls GetMemberConfig
\* between any two of them.
NextStartup ==
    \/ \E path \in KubeconfigPaths : InitKubeConfig(path)
    \/ \E loads \in BOOLEAN : InitKubeConfigRest(loads)
    \/ \E loads \in BOOLEAN : InitKubeConfigAPI(loads)
    \/ \E path \in KubeconfigPaths, loads \in BOOLEAN : InitKarmadaConfigRest(path, loads)
    \/ \E loads \in BOOLEAN : InitKarmadaConfigAPI(loads)
    \/ \E loads \in BOOLEAN : InitKarmadaConfigMember(loads)
    \/ GetMemberConfig(Sequential)

(***************************************************************************)
(* The data-select queries: NewSortQuery, NewFilterQuery and               *)
(* NewDataSelectQuery.  A []string is nil or a list; a nil list has no     *)
(* element.                                                                *)
(***************************************************************************)
\* The raw lists a request can carry: nil, and every list of up to
\* MaxRawLen strings drawn from the two direction flags, a flag that is
\* neither, and a property name.
RawLists ==
    {[nil |-> TRUE, list |-> <<>>]} \cup
    {[nil |-> FALSE, list |-> l] :
        l \in UNION {[1..n -> {"a", "d", "asc", "name"}] : n \in 0..MaxRawLen}}

\* NoSort that holds a criterion: ascending by name.
NoSortByName == [SortByList |-> <<[Property |-> "name", Ascending |-> TRUE]>>]

\* var NoSort = &SortQuery{SortByList: []SortBy{}}
NoSort == [SortByList |-> <<>>]

\* var NoFilter = &FilterQuery{FilterByList: []FilterBy{}}
NoFilter == [FilterByList |-> <<>>]

\* StdComparableString(s): the string as a ComparableValue.
StdComparableString(s) == [nil |-> FALSE, type |-> "string", string |-> s, time |-> 0]

\* NewSortQuery that stops at a flag that is neither "a" nor "d" and keeps
\* the criteria parsed before it.
NewSortQueryPartial(sortByListRaw) ==
    LET raw == sortByListRaw.list
        RECURSIVE Parse(_, _)
        Parse(i, sortByList) ==
            IF ~(i + 1 < Len(raw)) THEN sortByList
            ELSE IF raw[i + 1] \notin {"a", "d"} THEN sortByList
            ELSE Parse(i + 2, Append(sortByList,
                           [Property |-> raw[i + 2],
                            Ascending |-> raw[i + 1] = "a"]))
    IN  IF sortByListRaw.nil \/ Len(raw) % 2 = 1 THEN NoSort
        ELSE [SortByList |-> Parse(0, <<>>)]

\* NewSortQuery that checks property names: a pair whose property is not
\* "name" makes it return NoSort.
NewSortQueryValidating(sortByListRaw) ==
    LET raw == sortByListRaw.list
        RECURSIVE Parse(_, _)
        Parse(i, sortByList) ==
            IF ~(i + 1 < Len(raw)) THEN [SortByList |-> sortByList]
            ELSE IF raw[i + 1] \in {"a", "d"} /\ raw[i + 2] = "name"
            THEN Parse(i + 2, Append(sortByList,
                           [Property |-> raw[i + 2],
                            Ascending |-> raw[i + 1] = "a"]))
            ELSE NoSort
    IN  IF sortByListRaw.nil \/ Len(raw) % 2 = 1 THEN NoSort
        ELSE Parse(0, <<>>)

\* NewSortQuery(sortByListRaw): NoSort for a nil or odd-length list; else
\* the loop over i = 0, 2, ... while i+1 < len, which returns NoSort at the
\* first order option that is neither "a" nor "d".  raw[i + 1] is the Go
\* element sortByListRaw[i].
NewSortQuery(sortByListRaw) ==
    LET raw == sortByListRaw.list
        RECURSIVE Parse(_, _)
        Parse(i, sortByList) ==
            IF ~(i + 1 < Len(raw)) THEN [SortByList |-> sortByList]
            ELSE IF raw[i + 1] = "a"
            THEN Parse(i + 2, Append(sortByList,
                           [Property |-> raw[i + 2], Ascending |-> TRUE]))
            ELSE IF raw[i + 1] = "d"
            THEN Parse(i + 2, Append(sortByList,
                           [Property |-> raw[i + 2], Ascending |-> FALSE]))
            ELSE NoSort
    IN  IF sortByListRaw.nil \/ Len(raw) % 2 = 1 THEN NoSort
        ELSE Parse(0, <<>>)

\* NewFilterQuery that takes the value of every pair for its property.
NewFilterQueryValueOnly(filterByListRaw) ==
    LET raw == filterByListRaw.list
    IN  IF filterByListRaw.nil \/ Len(raw) % 2 = 1 THEN NoFilter
        ELSE [FilterByList |->
                [k \in 1..(Len(raw) \div 2) |->
                    [Property |-> raw[2 * k],
                     Value |-> StdComparableString(raw[2 * k])]]]

\* NewFilterQuery(filterByListRaw): NoFilter for a nil or odd-length list;
\* else one FilterBy per pair, appended in the order of the list.
NewFilterQuery(filterByListRaw) ==
    LET raw == filterByListRaw.list
        RECURSIVE Parse(_, _)
        Parse(i, filterByList) ==
            IF ~(i + 1 < Len(raw)) THEN [FilterByList |-> filterByList]
            ELSE Parse(i + 2, Append(filterByList,
                           [Property |-> raw[i + 1],
                            Value |-> StdComparableString(raw[i + 2])]))
    IN  IF filterByListRaw.nil \/ Len(raw) % 2 = 1 THEN NoFilter
        ELSE Parse(0, <<>>)

(***************************************************************************)
(* Cells.  A cell is one fetched object seen through GetProperty; the      *)
(* cells of a list are of one type, and the UID of each is its place in    *)
(* the list the API server returned.                                       *)
(***************************************************************************)
\* StdComparableTime(t): the time as a ComparableValue.
StdComparableTime(t) == [nil |-> FALSE, type |-> "time", string |-> "", time |-> t]

\* The lists toCells makes of what a list call returned: up to MaxCells
\* objects.  Only an OverridePolicy lives in a namespace.
CellLists ==
    UNION {
        {[i \in 1..n |->
            [type |-> t, UID |-> i, Name |-> meta[i].Name,
             Namespace |-> meta[i].Namespace,
             CreationTimestamp |-> meta[i].CreationTimestamp]] :
         meta \in [1..n -> [Name : {"a", "b"},
                            Namespace : IF t = "OverridePolicyCell"
                                        THEN {"prod", "dev"} ELSE {""},
                            CreationTimestamp : {1, 2}]]} :
        t \in {"OverridePolicyCell", "ClusterOverridePolicyCell",
               "ClusterPropagationPolicyCell"},
        n \in 0..MaxCells}

\* GetProperty whose namespace case answers with the name.
GetPropertyNamespaceIsName(c, name) ==
    IF name = "name" THEN StdComparableString(c.Name)
    ELSE IF name = "creationTimestamp" THEN StdComparableTime(c.CreationTimestamp)
    ELSE IF name = "namespace" /\ c.type = "OverridePolicyCell"
    THEN StdComparableString(c.Name)
    ELSE [nil |-> TRUE, type |-> "nil", string |-> "", time |-> 0]

\* GetProperty that answers an unsupported name with a dummy string
\* instead of nil.
GetPropertyDummy(c, name) ==
    IF name = "name" THEN StdComparableString(c.Name)
    ELSE IF name = "creationTimestamp" THEN StdComparableTime(c.CreationTimestamp)
    ELSE IF name = "namespace" /\ c.type = "OverridePolicyCell"
    THEN StdComparableString(c.Namespace)
    ELSE StdComparableString("")

\* GetProperty(name) of OverridePolicyCell, ClusterOverridePolicyCell and
\* ClusterPropagationPolicyCell: the switch over the property name, with
\* the namespace case in OverridePolicyCell only, and nil by default.
GetProperty(c, name) ==
    IF name = "name" THEN StdComparableString(c.Name)
    ELSE IF name = "creationTimestamp" THEN StdComparableTime(c.CreationTimestamp)
    ELSE IF name = "namespace" /\ c.type = "OverridePolicyCell"
    THEN StdComparableString(c.Namespace)
    ELSE [nil |-> TRUE, type |-> "nil", string |-> "", time |-> 0]

(***************************************************************************)
(* The data-select engine: filter, then sort, then paginate.               *)
(***************************************************************************)
\* The pagination spec of a query that has none.
NoPagination == [none |-> TRUE, ItemsPerPage |-> 0, Page |-> 0]

\* NewDataSelectQuery(paginationQuery, sortQuery, filterQuery)
NewDataSelectQuery(paginationQuery, sortQuery, filterQuery) ==
    [PaginationQuery |-> paginationQuery, SortQuery |-> sortQuery,
     FilterQuery |-> filterQuery]

\* var NoDataSelect = NewDataSelectQuery(NoPagination, NoSort, NoFilter)
NoDataSelect == NewDataSelectQuery(NoPagination, NoSort, NoFilter)

\* The order of two property values: -1, 0 or 1.  A nil value is
\* incomparable: it ties with everything.  Times are ordered as numbers,
\* strings as strings.
Compare(a, b) ==
    LET alphabetical == <<"", "a", "b", "dev", "prod">>
        rank(s) == CHOOSE k \in 1..Len(alphabetical) : alphabetical[k] = s
        x == IF a.type = "time" THEN a.time ELSE rank(a.string)
        y == IF b.type = "time" THEN b.time ELSE rank(b.string)
    IN  IF a.nil \/ b.nil THEN 0
        ELSE IF x < y THEN -1
        ELSE IF x > y THEN 1
        ELSE 0

\* Filter: the cells of which every criterion holds, in their order.  A
\* criterion on a property the cell answers with nil is a no-op; any other
\* holds when the property value equals the criterion's value.
Filter(cells, filterQuery) ==
    LET filterByList == filterQuery.FilterByList
        Matches(c) ==
            \A k \in 1..Len(filterByList) :
                LET v == GetProperty(c, filterByList[k].Property)
                IN  v.nil \/ v = filterByList[k].Value
    IN  SelectSeq(cells, Matches)

\* Sort that puts a cell before the cells it ties with.
SortUnstable(cells, sortQuery) ==
    LET sortByList == sortQuery.SortByList
        RECURSIVE LessFrom(_, _, _)
        LessFrom(k, x, y) ==
            IF k > Len(sortByList) THEN FALSE
            ELSE LET cmp == Compare(GetProperty(x, sortByList[k].Property),
                                    GetProperty(y, sortByList[k].Property))
                 IN  IF cmp = 0 THEN LessFrom(k + 1, x, y)
                     ELSE (cmp = -1) = sortByList[k].Ascending
        Insert(sorted, x) ==
            LET before == {k \in 1..Len(sorted) : LessFrom(1, sorted[k], x)}
                at == Cardinality(before)
            IN  SubSeq(sorted, 1, at) \o <<x>> \o SubSeq(sorted, at + 1, Len(sorted))
        RECURSIVE Build(_)
        Build(i) == IF i = 0 THEN <<>> ELSE Insert(Build(i - 1), cells[i])
    IN  Build(Len(cells))

\* Sort: a stable sort by the criteria in their order.  x goes before y
\* when, at the first criterion on which they do not tie, x is the smaller
\* one and the criterion ascends, or the larger one and it descends.  The
\* cells are inserted one by one, each after the cells it does not go
\* before.
Sort(cells, sortQuery) ==
    LET sortByList == sortQuery.SortByList
        RECURSIVE LessFrom(_, _, _)
        LessFrom(k, x, y) ==
            IF k > Len(sortByList) THEN FALSE
            ELSE LET cmp == Compare(GetProperty(x, sortByList[k].Property),
                                    GetProperty(y, sortByList[k].Property))
                 IN  IF cmp = 0 THEN LessFrom(k + 1, x, y)
                     ELSE (cmp = -1) = sortByList[k].Ascending
        Insert(sorted, x) ==
            LET notAfter == {k \in 1..Len(sorted) : ~LessFrom(1, x, sorted[k])}
                at == Cardinality(notAfter)
            IN  SubSeq(sorted, 1, at) \o <<x>> \o SubSeq(sorted, at + 1, Len(sorted))
        RECURSIVE Build(_)
        Build(i) == IF i = 0 THEN <<>> ELSE Insert(Build(i - 1), cells[i])
    IN  Build(Len(cells))

\* Paginate that counts pages from one.
PaginateOneBased(cells, paginationQuery) ==
    LET startIndex == paginationQuery.ItemsPerPage * (paginationQuery.Page - 1)
        endIndex == startIndex + paginationQuery.ItemsPerPage
    IN  IF paginationQuery = NoPagination THEN cells
        ELSE IF startIndex < 0 \/ startIndex >= Len(cells) THEN <<>>
        ELSE SubSeq(cells, startIndex + 1,
                    IF endIndex > Len(cells) THEN Len(cells) ELSE endIndex)

\* Paginate: every cell without a pagination spec; else the cells from
\* index page*size up to, not including, page*size+size or the end of the
\* list, and none when the page starts beyond the list.
Paginate(cells, paginationQuery) ==
    LET startIndex == paginationQuery.ItemsPerPage * paginationQuery.Page
        endIndex == startIndex + paginationQuery.ItemsPerPage
    IN  IF paginationQuery = NoPagination THEN cells
        ELSE IF startIndex >= Len(cells) THEN <<>>
        ELSE SubSeq(cells, startIndex + 1,
                    IF endIndex > Len(cells) THEN Len(cells) ELSE endIndex)

\* The pipeline: the selected cells and the count of the cells given.
GenericDataSelect(cells, dsQuery) ==
    [cells |-> Paginate(Sort(Filter(cells, dsQuery.FilterQuery),
                             dsQuery.SortQuery),
                        dsQuery.PaginationQuery),
     total |-> Len(cells)]

\* A call of GetProperty.
GetPropertyCall(cells, i, name) ==
    /\ DataSelectOnly
    /\ dsCall.fn = "none"
    /\ dsCall' = [fn |-> "GetProperty", cell |-> cells[i], name |-> name,
                  result |-> GetProperty(cells[i], name)]

\* The filter step for the filter parameter of a request.
FilterCall(cells, raw) ==
    /\ DataSelectOnly
    /\ dsCall.fn = "none"
    /\ dsCall' = [fn |-> "Filter", cells |-> cells, raw |-> raw,
                  query |-> NewFilterQuery(raw),
                  result |-> Filter(cells, NewFilterQuery(raw))]

\* The sort step for the sort parameter of a request.
SortCall(cells, raw) ==
    /\ DataSelectOnly
    /\ dsCall.fn = "none"
    /\ dsCall' = [fn |-> "Sort", cells |-> cells, raw |-> raw,
                  query |-> NewSortQuery(raw),
                  result |-> Sort(cells, NewSortQuery(raw))]

\* The pagination step for a page size and a page number.
PaginateCall(cells, itemsPerPage, page) ==
    /\ DataSelectOnly
    /\ dsCall.fn = "none"
    /\ LET query == [none |-> FALSE, ItemsPerPage |-> itemsPerPage, Page |-> page]
       IN  dsCall' = [fn |-> "Paginate", cells |-> cells, query |-> query,
                      result |-> Paginate(cells, query)]

\* The pipeline for the parameters of a request: the sort and filter
\* parameters, and a page size and a page number; a page size of -1 stands
\* for a request with no pagination parameters.
DataSelectCall(cells, sortRaw, filterRaw, itemsPerPage, page) ==
    /\ DataSelectOnly
    /\ dsCall.fn = "none"
    /\ LET pagination ==
               IF itemsPerPage = -1 THEN NoPagination
               ELSE [none |-> FALSE, ItemsPerPage |-> itemsPerPage, Page |-> page]
           query == NewDataSelectQuery(pagination, NewSortQuery(sortRaw),
                                       NewFilterQuery(filterRaw))
       IN  dsCall' = [fn |-> "GenericDataSelect", cells |-> cells,
                      sortRaw |-> sortRaw, filterRaw |-> filterRaw,
                      query |-> query,
                      result |-> GenericDataSelect(cells, query)]

\* The pipeline for NoDataSelect.
NoDataSelectCall(cells) ==
    /\ DataSelectOnly
    /\ dsCall.fn = "none"
    /\ dsCall' = [fn |-> "GenericDataSelect", cells |-> cells,
                  sortRaw |-> [nil |-> TRUE, list |-> <<>>],
                  filterRaw |-> [nil |-> TRUE, list |-> <<>>],
                  query |-> NoDataSelect,
                  result |-> GenericDataSelect(cells, NoDataSelect)]

\* A call of NewSortQuery.
NewSortQueryCall(raw) ==
    /\ DataSelectOnly
    /\ dsCall.fn = "none"
    /\ dsCall' = [fn |-> "NewSortQuery", raw |-> raw,
                  result |-> NewSortQuery(raw)]

\* A call of NewFilterQuery.
NewFilterQueryCall(raw) ==
    /\ DataSelectOnly
    /\ dsCall.fn = "none"
    /\ dsCall' = [fn |-> "NewFilterQuery", raw |-> raw,
                  result |-> NewFilterQuery(raw)]

\* The request has made no call yet.
InitDataSelect == dsCall = [fn |-> "none"]

NextDataSelect ==
    \/ dsCall.fn = "none" /\ \E raw \in RawLists : NewSortQueryCall(raw)
    \/ dsCall.fn = "none" /\ \E raw \in RawLists : NewFilterQueryCall(raw)
    \/ dsCall.fn = "none" /\ \E cells \in CellLists, i \in 1..MaxCells,
          name \in {"name", "creationTimestamp", "namespace", "label"} :
          i <= Len(cells) /\ GetPropertyCall(cells, i, name)
    \/ dsCall.fn = "none" /\ \E cells \in CellLists,
          list \in {<<>>, <<"name", "a">>, <<"namespace", "prod">>,
                    <<"name", "a", "namespace", "prod">>, <<"label", "x">>,
                    <<"name", "b", "label", "x">>, <<"namespace">>} :
          FilterCall(cells, [nil |-> FALSE, list |-> list])
    \/ dsCall.fn = "none" /\ \E cells \in CellLists,
          list \in {<<>>, <<"a", "name">>, <<"d", "name">>,
                    <<"a", "creationTimestamp", "a", "name">>,
                    <<"d", "creationTimestamp", "d", "name">>,
                    <<"a", "namespace", "d", "creationTimestamp">>,
                    <<"a", "label">>, <<"d", "label", "d", "name">>,
                    <<"a", "name", "asc", "name">>} :
          SortCall(cells, [nil |-> FALSE, list |-> list])
    \/ dsCall.fn = "none" /\ \E cells \in CellLists, itemsPerPage \in 1..MaxItemsPerPage,
          page \in 0..MaxPage :
          PaginateCall(cells, itemsPerPage, page)
    \/ dsCall.fn = "none" /\ \E cells \in CellLists,
          sortRaw \in {[nil |-> TRUE, list |-> <<>>],
                       [nil |-> FALSE, list |-> <<"a", "creationTimestamp", "a", "name">>]},
          filterRaw \in {[nil |-> TRUE, list |-> <<>>],
                         [nil |-> FALSE, list |-> <<"namespace", "prod">>]},
          itemsPerPage \in -1..MaxItemsPerPage, page \in 0..1 :
          /\ itemsPerPage = 0 => Len(cells) = 0
          /\ itemsPerPage = -1 => page = 0
          /\ DataSelectCall(cells, sortRaw, filterRaw, itemsPerPage, page)
    \/ dsCall.fn = "none" /\ \E cells \in CellLists : NoDataSelectCall(cells)

(***************************************************************************)
(* Specifications: one per component.                                      *)
(***************************************************************************)
vars == <<updateVars, resolveVars, verberVars, concurrentVars, registryVars,
          getterVars, startupVars, dsCall>>

Init ==
    /\ InitUpdate /\ InitResolve /\ InitVerber /\ InitConcurrent
    /\ InitRegistry /\ InitGetters /\ InitStartup /\ InitDataSelect

\* resourceVerber.Update with other clients writing the same object.
SpecUpdate == Init /\ [][NextUpdate]_vars

\* The coordinate resolver with a catalog that changes between requests.
SpecResolve == Init /\ [][NextResolve]_vars

\* Get, Delete, Create and Update over one coordinate cache.
SpecVerber == Init /\ [][NextVerber]_vars

\* groupVersionResourceFromKind under concurrent requests, the catalog fixed.
SpecConcurrent == Init /\ [][NextConcurrent]_vars

\* The client registry under concurrent requests.
SpecRegistry == Init /\ [][NextRegistry]_vars

\* The client registry used by one request at a time.
SpecRegistrySequential == Init /\ [][NextRegistrySequential]_vars

\* The initializers, in a process with or without an ambient identity.
InitProcess ==
    /\ InitUpdate /\ InitResolve /\ InitVerber /\ InitConcurrent
    /\ InitRegistry /\ InitGetters /\ InitConfigs /\ inCluster \in BOOLEAN
    /\ InitDataSelect

SpecStartup == InitProcess /\ [][NextStartup]_vars

\* The functions of the data-select package, each applied to its inputs.
SpecDataSelect == Init /\ [][NextDataSelect]_vars

\* The whole layer.  The components share no variable, so each of the
\* specifications above is this one restricted to one component.
Next ==
    \/ NextUpdate \/ NextResolve \/ NextVerber \/ NextConcurrent
    \/ NextRegistry \/ NextRegistrySequential \/ NextStartup
    \/ NextDataSelect

Spec == Init /\ [][Next]_vars

(***************************************************************************)
(* Properties of resourceVerber.Update, under SpecUpdate.                  *)
(***************************************************************************)

\* An Update attempt's patch write succeeds and Update returns.
PatchSucceeds == upc = "patch" /\ upc' = "done" /\ ret' = "nil"

\* C1: three-way patch isolation.  When Update succeeds, every payload field
\* that another writer changed after the caller read it and that the caller
\* did not intend to change (its object still holds the value the caller
\* read, or omits the field) keeps the other writer's value.
C1_PatchIsolation ==
    [][PatchSucceeds =>
         \A f \in Fields :
            (/\ stored[f] # origRead[f]
             /\ (object[f] = origRead[f] \/ object[f] = Absent))
                => stored'[f] = stored[f]]_vars

\* C4: Update ends after a bounded number of attempts.  No call issues more
\* than retry.DefaultRetry.Steps fetches or patch writes, and a call whose
\* patch writes all conflicted has returned once that many have.
C4_BoundedAttempts ==
    /\ nFetch <= DefaultRetrySteps
    /\ nPatch <= DefaultRetrySteps
    /\ nConflict = DefaultRetrySteps => upc = "done" /\ ret = "conflict"

\* C4 witness: a call that has used up every step on conflicts.
C4_Witness ==
    upc = "done" /\ nFetch = DefaultRetrySteps /\ nConflict = DefaultRetrySteps

\* C5: an attempt that ends in any error other than a patch conflict ends
\* the call: Update has returned that error, so no fetch or patch follows.
C5_OtherErrorAborts ==
    attemptErr \notin {"nil", "conflict"} => upc = "done" /\ ret = attemptErr

\* C5 witness: a fetch that failed in the second attempt, after one conflict.
C5_Witness ==
    upc = "done" /\ ret = "get_failed" /\ nConflict = 1 /\ nFetch = 2

\* C6: Update returns a conflict only when every allowed attempt ended in a
\* conflict, and an attempt whose patch write succeeded ends the call with
\* success.
C6_ConflictOnlyWhenExhausted ==
    /\ (upc = "done" /\ ret = "conflict") =>
          /\ nConflict = DefaultRetrySteps
          /\ nPatch = DefaultRetrySteps
          /\ nFetch = DefaultRetrySteps
    /\ (nPatch > nConflict /\ attemptErr = "nil") => upc = "done" /\ ret = "nil"

\* C6 witness: a patch write that succeeds after two conflicts.
C6_Witness ==
    upc = "done" /\ ret = "nil" /\ nConflict = 2 /\ nPatch = 3

\* C9: Update is idempotent.  When an Update that repeats the last successful
\* one (same payload, no write by anyone else since the first one began)
\* succeeds, the stored payload is the one the first application left.
C9_Idempotent ==
    [][(PatchSucceeds /\ repeat /\ clean) =>
         FieldsOf(stored') = FieldsOf(stored)]_vars

\* C9 witness: a repeated Update has succeeded, and the first one had
\* changed the stored object.
C9_Witness ==
    /\ upc = "done" /\ ret = "nil" /\ repeat /\ clean
    /\ nPatch = 1
    /\ stored[ResourceVersion] = 2
    /\ FieldsOf(stored) # FieldsOf(InitialObject)

(***************************************************************************)
(* Properties of the coordinate resolver, under SpecResolve.               *)
(***************************************************************************)

\* The keys of the top-level resource types of a catalog whose group-version
\* parses: the lower-cased kind and "<resource-name>.<group>".
KeysOfList(list) ==
    LET gv == ParseGroupVersion(list.GroupVersion)
        top == {i \in 1..Len(list.APIResources) :
                   ~Contains(list.APIResources[i].Name, Slash)}
    IN  IF ~gv.ok THEN {}
        ELSE {ToLower(list.APIResources[i].Kind) : i \in top}
             \cup {CrdKind(list.APIResources[i].Name, gv.Group) : i \in top}

CatalogKeys(lists) == UNION {KeysOfList(lists[i]) : i \in 1..Len(lists)}

\* The kind names of a catalog, as the catalog spells them.
CatalogKindNames(lists) ==
    UNION {{lists[i].APIResources[j].Kind : j \in 1..Len(lists[i].APIResources)} :
              i \in 1..Len(lists)}

\* The call has returned an error of the enumeration or of the rebuild.
RebuildFailed == rret.err \in {"catalog_unavailable", "parse_failed"}

\* A step that is a groupVersionResourceFromKind call.
IsResolveCall == rpc \in {"idle", "done"} /\ catalog' = catalog

\* C2 as stated: a call for a kind name of the catalog from which the cache
\* was just built, and built without an error, returns a coordinate.
C2_KindNameOfCatalogResolves ==
    (/\ rpc = "done" /\ nEnum = 1 /\ ~RebuildFailed
     /\ rkind \in CatalogKindNames(resourceList))
        => rret.err = "nil"

\* C2, amended: for every key of a top-level resource type of the catalog
\* (the lower-cased kind or "<resource-name>.<group>"), a cold call whose
\* enumeration and rebuild succeed returns the coordinate the cache holds for
\* it; keys never leave the cache; and a call for a key in the cache returns
\* its coordinate without enumerating the catalog.
C2_KeyOfCatalogResolves ==
    /\ []((/\ rpc = "done" /\ nEnum = 1 /\ ~RebuildFailed
           /\ rkind \in CatalogKeys(resourceList))
              => /\ rret.err = "nil"
                 /\ rret.gvr = kindToGroupVersionResource[rkind]
                 /\ rret.gvr # NoGVR)
    /\ [][/\ DOMAIN kindToGroupVersionResource
                \subseteq DOMAIN kindToGroupVersionResource'
          /\ (IsResolveCall /\ rkind' \in DOMAIN kindToGroupVersionResource)
                => /\ rpc' = "done"
                   /\ rret'.err = "nil"
                   /\ rret'.gvr = kindToGroupVersionResource[rkind']
                   /\ nEnum' = 0]_vars

\* C2 witness: a warm call for the lower-cased kind "job" has returned its
\* coordinate without an enumeration.
C2_Witness ==
    /\ rpc = "done" /\ nEnum = 0 /\ rret.err = "nil"
    /\ rkind = <<"j", "o", "b">>
    /\ rret.gvr.Resource = <<"j", "o", "b", "s">>

\* C3 as stated: every call for a kind absent from the catalog performs one
\* enumeration, one rebuild and one re-check and returns the not-found error
\* naming the kind.
C3_AbsentKindAlwaysNotFound ==
    (/\ rpc = "done"
     /\ rkind \notin CatalogKeys(Catalogs[catalog])
     /\ rkind \notin CatalogKindNames(Catalogs[catalog]))
        => /\ nEnum = 1 /\ nBuild = 1 /\ nCheck = 1
           /\ rret.err = "not_found" /\ rret.kind = rkind

\* C3, amended: no call enumerates the catalog twice, rebuilds more often
\* than it enumerated or re-checks more often than it rebuilt.  A call that
\* misses the cache for a kind that is not a key of the enumerated catalog
\* enumerates once, rebuilds once, re-checks once and returns the not-found
\* error naming the kind, unless the enumeration fails (returned with no
\* rebuild) or the rebuild fails (returned with no re-check).
C3_AbsentKindOneRebuild ==
    /\ nEnum <= 1 /\ nBuild <= nEnum /\ nCheck <= nBuild
    /\ (/\ rpc = "done" /\ nEnum = 1 /\ ~RebuildFailed
        /\ rkind \notin CatalogKeys(resourceList))
           => /\ nBuild = 1 /\ nCheck = 1
              /\ rret.err = "not_found" /\ rret.kind = rkind
    /\ (rpc = "done" /\ rret.err = "catalog_unavailable")
           => nEnum = 1 /\ nBuild = 0 /\ nCheck = 0
    /\ (rpc = "done" /\ rret.err = "parse_failed")
           => nEnum = 1 /\ nBuild = 1 /\ nCheck = 0

\* C3 witness: a call for a kind no catalog knows has returned not-found
\* after one enumeration.
C3_Witness ==
    /\ rpc = "done" /\ rkind = <<"n", "o", "n", "e">>
    /\ rret.err = "not_found" /\ rret.kind = rkind /\ nEnum = 1 /\ nBuild = 1 /\ nCheck = 1

\* C10: the cache is never partially updated.  A rebuild either leaves the
\* cache as it was or inserts the keys of every top-level resource type of
\* the enumerated catalog.
C10_RebuildAllOrNothing ==
    [][(rpc = "build" /\ rpc' # "build") =>
          \/ kindToGroupVersionResource' = kindToGroupVersionResource
          \/ CatalogKeys(resourceList) \subseteq DOMAIN kindToGroupVersionResource']_vars

\* What a rebuild of an empty cache from the catalog lists leaves.
FreshCache(lists) == BuildCache(<< >>, lists, 1).cache

\* C12: a catalog change is observed at the next refresh.  The call that
\* follows a successful rebuild from the catalog the control plane serves
\* resolves as a cache built from that catalog alone would: a key of the
\* catalog returns the catalog's coordinate, and any other key (a removed
\* kind, the old composite key of a moved kind) returns no coordinate at the
\* first look.
C12_RefreshShowsCatalogChange ==
    [][(/\ IsResolveCall
        /\ rpc = "done" /\ nBuild = 1 /\ ~RebuildFailed
        /\ resourceList = Catalogs[catalog])
          => IF rkind' \in DOMAIN FreshCache(Catalogs[catalog])
             THEN /\ rret'.err = "nil"
                  /\ rret'.gvr = FreshCache(Catalogs[catalog])[rkind']
             ELSE rret'.err # "nil"]_vars

\* The top-level resource types of a catalog: <<i, j>> is resource j of
\* list i, its name holds no slash and the list's group-version parses.
TopLevelTypes(lists) ==
    {t \in UNION {{<<i, j>> : j \in 1..Len(lists[i].APIResources)} :
                     i \in 1..Len(lists)} :
        /\ ParseGroupVersion(lists[t[1]].GroupVersion).ok
        /\ ~Contains(lists[t[1]].APIResources[t[2]].Name, Slash)}

\* The coordinate (group, version, resource-name) of resource type t.
CoordinateOf(lists, t) ==
    LET gv == ParseGroupVersion(lists[t[1]].GroupVersion)
    IN  [Group |-> gv.Group, Version |-> gv.Version,
         Resource |-> lists[t[1]].APIResources[t[2]].Name]

\* The two keys of resource type t: the lower-cased kind and
\* "<resource-name>.<group>".
KeysOfType(lists, t) ==
    LET gv == ParseGroupVersion(lists[t[1]].GroupVersion)
        r == lists[t[1]].APIResources[t[2]]
    IN  {ToLower(r.Kind), r.Name \o <<Dot>> \o gv.Group}

\* Type t comes before type u in the catalog.
Before(t, u) == t[1] < u[1] \/ (t[1] = u[1] /\ t[2] < u[2])

\* The cache is the one a rebuild that returned no error has just left.
RebuiltOk == rpc \in {"recheck", "done"} /\ nBuild = 1 /\ rret.err # "parse_failed"

\* A rebuild that returns no error inserts only keys of top-level resource
\* types of the enumerated catalog and leaves every other entry as it was.
RebuildInsertsOnlyTopLevelKeys ==
    (rpc = "build" /\ rpc' = "recheck") =>
        \A k \in DOMAIN kindToGroupVersionResource' :
            \/ \E t \in TopLevelTypes(resourceList) : k \in KeysOfType(resourceList, t)
            \/ /\ k \in DOMAIN kindToGroupVersionResource
               /\ kindToGroupVersionResource'[k] = kindToGroupVersionResource[k]

\* C14 as stated: after a successful rebuild both keys of every top-level
\* resource type of the enumerated catalog are in the cache and map to the
\* coordinate of that type, and no key comes from a sub-resource.
C14_TwoKeysPerType ==
    /\ [](RebuiltOk =>
            \A t \in TopLevelTypes(resourceList) :
                \A k \in KeysOfType(resourceList, t) :
                    /\ k \in DOMAIN kindToGroupVersionResource
                    /\ kindToGroupVersionResource[k] = CoordinateOf(resourceList, t))
    /\ [][RebuildInsertsOnlyTopLevelKeys]_vars

\* C14, amended: after a successful rebuild both keys of every top-level
\* resource type of the enumerated catalog are in the cache, and each key
\* maps to the coordinate of the last type, in catalog order, that has this
\* key; no key comes from a sub-resource.
C14_TwoKeysLastTypeWins ==
    /\ [](RebuiltOk =>
            \A t \in TopLevelTypes(resourceList) :
                \A k \in KeysOfType(resourceList, t) :
                    /\ k \in DOMAIN kindToGroupVersionResource
                    /\ (\A u \in TopLevelTypes(resourceList) :
                           k \in KeysOfType(resourceList, u) => ~Before(t, u))
                          => kindToGroupVersionResource[k] = CoordinateOf(resourceList, t))
    /\ [][RebuildInsertsOnlyTopLevelKeys]_vars

\* C14 witness: a rebuild from a catalog that lists the kind Job in two
\* versions has succeeded; "job" maps to the later version, and the kind of
\* the sub-resource an earlier rebuild met is not a key.
C14_Witness ==
    /\ RebuiltOk /\ rpc = "done"
    /\ resourceList = <<BatchV1, BatchV2>>
    /\ kindToGroupVersionResource[<<"j", "o", "b">>].Version = <<"v", "2">>
    /\ <<"p", "o", "d">> \in DOMAIN kindToGroupVersionResource
    /\ <<"e", "v">> \notin DOMAIN kindToGroupVersionResource

\* C16: a failed catalog enumeration ends the call.  The step in which the
\* enumeration fails returns the catalog's error with the cache as it was,
\* after one enumeration, no rebuild and no re-check; and no call
\* enumerates twice.
C16_EnumerationFailureReturns ==
    /\ [](/\ nEnum <= 1
          /\ (rpc = "done" /\ rret.err = "catalog_unavailable")
                => nEnum = 1 /\ nBuild = 0 /\ nCheck = 0)
    /\ [][(rpc = "enumerate" /\ nEnum' # nEnum /\ rpc' # "build") =>
             /\ rpc' = "done"
             /\ rret'.err = "catalog_unavailable"
             /\ kindToGroupVersionResource' = kindToGroupVersionResource
             /\ nEnum' = 1 /\ nBuild' = 0 /\ nCheck' = 0]_vars

\* C16 witness: a call against a cache that holds keys has returned the
\* enumeration's error.
C16_Witness ==
    /\ rpc = "done" /\ rret.err = "catalog_unavailable" /\ nEnum = 1
    /\ DOMAIN kindToGroupVersionResource # {}

(***************************************************************************)
(* Properties of Get, Delete, Create and Update, under SpecVerber.         *)
(***************************************************************************)

\* C11: the coordinate cache starts empty, and no step of Get, Delete,
\* Create, Update or of the resolver they call removes a key from it.
C11_CacheGrowsMonotonically ==
    /\ kindToGroupVersionResource = << >>
    /\ [][DOMAIN kindToGroupVersionResource
             \subseteq DOMAIN kindToGroupVersionResource']_vars

\* C11 witness: after a Delete that rebuilt the cache from a catalog
\* without the kind Job, and an Update, the keys an earlier rebuild
\* inserted for Job are still in the cache.
C11_Witness ==
    /\ vpc = "done" /\ verb = "Delete" /\ upc = "done"
    /\ nBuild = 1 /\ resourceList = <<CoreV1>>
    /\ <<"j", "o", "b">> \in DOMAIN kindToGroupVersionResource
    /\ <<"j", "o", "b", "s", ".", "b">> \in DOMAIN kindToGroupVersionResource

\* A step of Create, and a step of Update.
IsCreateStep == vpc \in {"idle", "done"} /\ vpc' = "done" /\ verb' = "Create"
IsUpdateStep == updateVars' # updateVars

\* The coordinate an object of GroupVersionKind gvk names: its group, its
\* version and its lower-cased kind in the plural.
OwnCoordinate(gvk) ==
    [Group |-> gvk.Group, Version |-> gvk.Version,
     Resource |-> ToLower(gvk.Kind) \o <<"s">>]

\* C15: no step of Create or of Update changes the coordinate cache or
\* enumerates the catalog, and the coordinate the call addresses is the one
\* the object's own group, version and kind give, whatever the cache holds.
C15_CreateUpdateBypassCache ==
    [][(IsCreateStep \/ IsUpdateStep) =>
          /\ kindToGroupVersionResource' = kindToGroupVersionResource
          /\ nEnum' = nEnum /\ nBuild' = nBuild /\ nCheck' = nCheck
          /\ rpc' = rpc
          /\ IsCreateStep =>
                /\ Len(sent') = 1
                /\ sent'[1].verb = "create"
                /\ sent'[1].gvr = OwnCoordinate(vobject')
          /\ (IsUpdateStep /\ upc' # "idle") =>
                updateGVR' = OwnCoordinate(UpdatedObjectKind)]_vars

\* C15 witness: a Create of a Job of version v2 and an Update have run
\* against a cache that holds another coordinate for the key "job".
C15_Witness ==
    /\ vpc = "done" /\ verb = "Create" /\ vobject = JobV2
    /\ upc = "done" /\ ret = "nil"
    /\ <<"j", "o", "b">> \in DOMAIN kindToGroupVersionResource
    /\ kindToGroupVersionResource[<<"j", "o", "b">>] # sent[1].gvr

\* C17: every delete request carries the foreground propagation policy; its
\* grace period is the one-second value when deleteNow is true and is not
\* set when deleteNow is false.
C17_DeleteOptions ==
    \A i \in 1..Len(sent) :
        sent[i].verb = "delete" =>
            /\ sent[i].options.PropagationPolicy = "Foreground"
            /\ deleteNow => sent[i].options.GracePeriodSeconds = GracePeriodSeconds
            /\ ~deleteNow => sent[i].options.GracePeriodSeconds = Unset

\* C17 witness: a Delete without deleteNow has sent its request.
C17_Witness ==
    /\ vpc = "done" /\ verb = "Delete" /\ ~deleteNow
    /\ Len(sent) = 1 /\ sent[1].verb = "delete"

\* C18: Get and Delete send one request when the kind resolves and none
\* when it does not.  While the resolver runs nothing is sent; when it
\* returned an error the verb returns that error and sends nothing; when it
\* returned a coordinate the verb sends one request to it and returns the
\* API's answer, whose not-found is not the resolver's not-found.
C18_OneRequestWhenResolved ==
    /\ vpc = "resolve" => Len(sent) = 0
    /\ (vpc = "done" /\ verb \in {"Get", "Delete"}) =>
          IF rret.err # "nil"
          THEN /\ Len(sent) = 0
               /\ vret.err = rret.err /\ vret.kind = rret.kind
          ELSE /\ Len(sent) = 1
               /\ sent[1].verb = (IF verb = "Get" THEN "get" ELSE "delete")
               /\ sent[1].gvr = rret.gvr
               /\ vret.err \in {"nil", "api_not_found", "api_error"}

\* C18 witness: a Get whose kind did not resolve has returned the
\* resolver's not-found error.
C18_Witness ==
    /\ vpc = "done" /\ verb = "Get"
    /\ vret.err = "not_found" /\ vret.kind = <<"n", "o", "n", "e">>
    /\ Len(sent) = 0

(***************************************************************************)
(* Properties of concurrent resolve calls, under SpecConcurrent.           *)
(***************************************************************************)

\* C13: with a fixed catalog, whatever the interleaving of concurrent
\* resolve calls, the process keeps running, a call that returns a
\* coordinate returns the one the catalog assigns to the requested key, and
\* a call returns not-found only for a key the catalog does not have.
C13_RaceOnlyDuplicatesRebuilds ==
    /\ ~fatal
    /\ \A p \in Requests :
          cpc[p] = "done" =>
             /\ cret[p].err = "nil" =>
                   /\ ckind[p] \in DOMAIN FreshCache(Catalogs[catalog])
                   /\ cret[p].gvr = FreshCache(Catalogs[catalog])[ckind[p]]
             /\ cret[p].err = "not_found" =>
                   ckind[p] \notin DOMAIN FreshCache(Catalogs[catalog])

(***************************************************************************)
(* Properties of the cluster client registry, under SpecRegistry.          *)
(***************************************************************************)

\* The address a client for cluster n is meant to have.
MemberAddress(n) == KarmadaHost \o ProxyPath(n)

\* C7: one connection per cluster name.  No two clients are ever constructed
\* for the same cluster name, and requests that asked for the same name and
\* got a client got the same one.
C7_OneConnectionPerName ==
    /\ \A c1, c2 \in constructed : c1.builtFor = c2.builtFor => c1 = c2
    /\ \A r1, r2 \in Requests :
          (/\ mpc[r1] = "done" /\ mpc[r2] = "done"
           /\ mname[r1] = mname[r2]
           /\ mret[r1] # NilClient /\ mret[r2] # NilClient)
              => mret[r1] = mret[r2]

\* C8: the client cached under cluster name n, and the client returned to a
\* request that asked for n, were built with the control plane's address
\* followed by the proxy path of n.
C8_ClientAddressMatchesName ==
    /\ \A n \in DOMAIN memberClients :
          memberClients[n].Host = MemberAddress(n)
    /\ \A r \in Requests :
          (mpc[r] = "done" /\ mret[r] # NilClient)
              => mret[r].Host = MemberAddress(mname[r])

(***************************************************************************)
(* Properties of the registry used by one request at a time, under         *)
(* SpecRegistrySequential.                                                 *)
(***************************************************************************)

\* The entry of the registry a client built for b belongs to, NilClient
\* when there is none.
EntryFor(b) ==
    IF b = "karmada" THEN inClusterKarmadaClient
    ELSE IF b = "karmada-apiserver" THEN inClusterClientForKarmadaAPIServer
    ELSE IF b \in DOMAIN memberClients THEN memberClients[b]
    ELSE NilClient

\* The getter whose entry is built for b.
GetterOf(b) ==
    IF b = "karmada" THEN "InClusterKarmadaClient"
    ELSE "InClusterClientForKarmadaAPIServer"

\* Built once and reused, in states: no two connections were constructed
\* for one entry, a member connection is under construction only while its
\* name has no entry, every entry was constructed for its getter or name,
\* and a call that returned a connection returned the entry.
BuiltOnce ==
    /\ \A c1, c2 \in constructed : c1.builtFor = c2.builtFor => c1 = c2
    /\ \A r \in Requests :
          /\ mpc[r] \in {"sethost", "new", "setglobal", "store"}
                => mname[r] \notin DOMAIN memberClients
          /\ (mpc[r] = "done" /\ mret[r] # NilClient)
                => /\ mret[r] = EntryFor(mname[r])
                   /\ mret[r].builtFor = mname[r]
    /\ \A b \in {"karmada", "karmada-apiserver"} \cup DOMAIN memberClients :
          EntryFor(b) # NilClient
             => EntryFor(b) \in constructed /\ EntryFor(b).builtFor = b
    /\ \A b \in {"karmada", "karmada-apiserver"} :
          (glast.getter = GetterOf(b) /\ glast.client # NilClient)
             => glast.client = EntryFor(b)

\* Built once and reused, in steps: an entry is never removed or replaced,
\* and a connection is constructed only for an entry that does not exist.
Reused ==
    /\ \A b \in {"karmada", "karmada-apiserver"} \cup DOMAIN memberClients :
          EntryFor(b) # NilClient => EntryFor(b)' = EntryFor(b)
    /\ \A c \in constructed' \ constructed : EntryFor(c.builtFor) = NilClient

\* C19 as stated: entries are built once and reused, and every call of
\* InClusterKarmadaClient, InClusterClientForKarmadaAPIServer or
\* InClusterClientForMemberCluster made after initialization returns a
\* connection, the first one by constructing it.
C19_FirstCallConstructs ==
    /\ [](/\ BuiltOnce
          /\ (/\ glast.getter \in {"InClusterKarmadaClient",
                                   "InClusterClientForKarmadaAPIServer"}
              /\ glast.initialized)
                => glast.client # NilClient)
    /\ [][/\ Reused
          /\ \A r \in Requests : mpc[r] = "new" => mpc'[r] # "done"]_vars

\* C19, amended: entries are built once and reused.  A call that finds an
\* entry returns it and constructs nothing; a call that finds none
\* constructs one connection and stores it when the construction succeeds;
\* no entry is ever removed or replaced.  When the construction fails no
\* entry is stored.
C19_BuiltOnceWhenConstructed ==
    /\ [](/\ BuiltOnce
          /\ (/\ glast.getter \in {"InClusterKarmadaClient",
                                   "InClusterClientForKarmadaAPIServer"}
              /\ glast.initialized /\ glast.client = NilClient)
                => \/ exited
                   \/ /\ glast.getter = "InClusterClientForKarmadaAPIServer"
                      /\ inClusterClientForKarmadaAPIServer = NilClient)
    /\ [][/\ Reused
          /\ \A r \in Requests :
                (mpc[r] = "new" /\ mpc'[r] = "done")
                   => /\ memberClients' = memberClients
                      /\ constructed' = constructed
                      /\ mret'[r] = NilClient]_vars

\* C19 witness: after the connections for member1, member2 and the control
\* plane's API server were constructed, a later call for member1 has
\* returned the connection constructed first.
C19_Witness ==
    /\ mpc[Sequential] = "done" /\ mname[Sequential] = "member1"
    /\ mret[Sequential] # NilClient
    /\ "member2" \in DOMAIN memberClients
    /\ memberClients["member2"].id > mret[Sequential].id
    /\ inClusterClientForKarmadaAPIServer # NilClient
    /\ Cardinality(constructed) = 3

\* C20: a getter of the registry called before InitKarmadaConfig ends the
\* process: it returns neither a nil client nor an error to its caller.
C20_UninitializedUseIsFatal ==
    /\ []((glast.getter # "none" /\ ~glast.initialized) => exited)
    /\ [][\A r \in Requests :
             (~isKarmadaInitialized /\ mpc[r] = "idle" /\ mpc'[r] = "done")
                => exited']_vars

(***************************************************************************)
(* Properties of InitKubeConfig and InitKarmadaConfig, under SpecStartup.  *)
(***************************************************************************)
\* The initializer has returned, or has ended the process.
Finished == ipc \in {"done", "exit"}

\* A config that was loaded from the kubeconfig file of the initializer.
FromFile(config) == ~config.nil /\ config.Host = FileHost(kubeconfigPath)

\* A config that was built from the ambient identity.
FromAmbient(config) == ~config.nil /\ config.Host = InClusterHost

\* The ambient identity first, the file only after it has failed; the first
\* source that succeeds is the one the configs come from; an exit
\* only after both have failed.
AmbientThenFile(configs) ==
    /\ Len(tried) >= 1
    /\ tried[1] = Tried("InClusterConfig", inCluster)
    /\ IF inCluster
       THEN /\ tried = <<Tried("InClusterConfig", TRUE)>>
            /\ ipc = "done"
            /\ \A config \in configs : FromAmbient(config)
       ELSE /\ tried = <<Tried("InClusterConfig", FALSE),
                         Tried("kubeconfig", ipc = "done")>>
            /\ ipc = "done" => \A config \in configs : FromFile(config)

\* C21 as stated: both initializers try the ambient in-cluster identity
\* first and the kubeconfig file only when there is none; the first source
\* that succeeds determines the stored configuration, and the process exits
\* only when both have failed.
C21_BothPreferAmbient ==
    Finished =>
        /\ initializer = "InitKubeConfig" =>
              AmbientThenFile({kubernetesRestConfig, kubernetesAPIConfig})
        /\ initializer = "InitKarmadaConfig" =>
              AmbientThenFile({karmadaRestConfig, karmadaAPIConfig,
                               karmadaMemberConfig})

\* C21, amended: InitKubeConfig tries the ambient in-cluster identity first
\* and the kubeconfig file only when there is none; the first source that
\* succeeds determines the stored configuration, and the process exits only
\* when both have failed.  InitKarmadaConfig tries the kubeconfig file
\* alone, with or without an ambient identity: it stores what the file
\* holds, and the process exits when the file does not load.
C21_KubePrefersAmbient ==
    Finished =>
        /\ initializer = "InitKubeConfig" =>
              AmbientThenFile({kubernetesRestConfig, kubernetesAPIConfig})
        /\ initializer = "InitKarmadaConfig" =>
              /\ tried = <<Tried("kubeconfig", ipc = "done")>>
              /\ ipc = "done" =>
                    /\ FromFile(karmadaRestConfig)
                    /\ FromFile(karmadaAPIConfig)
                    /\ FromFile(karmadaMemberConfig)

\* C21 witness: without an ambient identity, InitKubeConfig has returned
\* with the configs of its kubeconfig file, after InitKarmadaConfig had
\* stored those of another file.
C21_Witness ==
    /\ ipc = "done"
    /\ initializer = "InitKubeConfig"
    /\ tried = <<Tried("InClusterConfig", FALSE), Tried("kubeconfig", TRUE)>>
    /\ FromFile(kubernetesRestConfig)
    /\ FromFile(kubernetesAPIConfig)
    /\ karmadaMemberConfig = [nil |-> FALSE, Host |-> KarmadaHost]

(***************************************************************************)
(* Properties of the data-select package, under SpecDataSelect.            *)
(***************************************************************************)
\* C22: NewSortQuery returns the empty criteria list when the raw list is
\* nil, when its length is odd, and when the direction flag of any pair,
\* the first or a later one, is neither "a" nor "d"; what it returns is
\* never a part of the pairs: it is empty or has one criterion per pair.
C22_SortDegradesToNoSort ==
    dsCall.fn = "NewSortQuery" =>
        LET raw == dsCall.raw.list
            pairs == Len(raw) \div 2
            degraded ==
                \/ dsCall.raw.nil
                \/ Len(raw) % 2 = 1
                \/ \E k \in 1..pairs : raw[2 * k - 1] \notin {"a", "d"}
        IN  /\ degraded => dsCall.result.SortByList = <<>>
            /\ Len(dsCall.result.SortByList) \in {0, pairs}

\* C22 witness: a list whose first pair is valid and whose second pair has
\* the flag "asc" has given the empty criteria list.
C22_Witness ==
    /\ dsCall.fn = "NewSortQuery"
    /\ dsCall.raw = [nil |-> FALSE, list |-> <<"a", "name", "asc", "name">>]
    /\ dsCall.result.SortByList = <<>>

\* C23: NewFilterQuery returns the empty criteria list when the raw list is
\* nil or of odd length; for a list of 2k strings it returns k criteria in
\* the order of the list, the i-th with the property raw[2i] and the string
\* value raw[2i+1] (counting from 0).
C23_FilterPairs ==
    dsCall.fn = "NewFilterQuery" =>
        LET raw == dsCall.raw.list
            filterByList == dsCall.result.FilterByList
        IN  IF dsCall.raw.nil \/ Len(raw) % 2 = 1
            THEN filterByList = <<>>
            ELSE /\ Len(filterByList) = Len(raw) \div 2
                 /\ \A k \in 1..Len(filterByList) :
                       /\ filterByList[k].Property = raw[2 * k - 1]
                       /\ filterByList[k].Value = StdComparableString(raw[2 * k])

\* C23 witness: a list of two pairs has given two criteria.
C23_Witness ==
    /\ dsCall.fn = "NewFilterQuery"
    /\ dsCall.raw = [nil |-> FALSE, list |-> <<"name", "a", "name", "d">>]
    /\ Len(dsCall.result.FilterByList) = 2
\* C24: the identity law of the pipeline.  With no sort and no filter
\* parameter, and with no pagination spec (as in NoDataSelect) or with page
\* 0 of a page size equal to the length of the list, the pipeline returns
\* the cells it was given, in their order.
C24_IdentityLaw ==
    (/\ dsCall.fn = "GenericDataSelect"
     /\ dsCall.sortRaw.nil
     /\ dsCall.filterRaw.nil
     /\ \/ dsCall.query.PaginationQuery.none
        \/ /\ dsCall.query.PaginationQuery.Page = 0
           /\ dsCall.query.PaginationQuery.ItemsPerPage = Len(dsCall.cells))
    => dsCall.result.cells = dsCall.cells

\* C24 witness: three cells that are in the order of no property have come
\* back as they were from page 0 of page size 3.
C24_Witness ==
    /\ dsCall.fn = "GenericDataSelect"
    /\ dsCall.sortRaw.nil
    /\ dsCall.filterRaw.nil
    /\ dsCall.query.PaginationQuery = [none |-> FALSE, ItemsPerPage |-> 3, Page |-> 0]
    /\ Len(dsCall.cells) = 3
    /\ dsCall.cells[1].Name = "b" /\ dsCall.cells[2].Name = "a"
    /\ dsCall.cells[1].CreationTimestamp = 2 /\ dsCall.cells[3].CreationTimestamp = 1
    /\ dsCall.result.cells = dsCall.cells

\* C25: for the zero-based page p and the positive size s over n cells,
\* pagination returns the cells at the indices p*s up to, not including,
\* min(p*s+s, n), in order (counting from 0); for p >= ceil(n/s) it returns
\* none.
C25_PageSlice ==
    dsCall.fn = "Paginate" =>
        LET n == Len(dsCall.cells)
            s == dsCall.query.ItemsPerPage
            p == dsCall.query.Page
            upTo == IF p * s + s < n THEN p * s + s ELSE n
            count == IF upTo > p * s THEN upTo - p * s ELSE 0
        IN  /\ Len(dsCall.result) = count
            /\ \A i \in 1..count : dsCall.result[i] = dsCall.cells[p * s + i]
            /\ p >= (n + s - 1) \div s => dsCall.result = <<>>

\* C25 witness: page 1 of size 2 over three cells is the third cell alone.
C25_Witness ==
    /\ dsCall.fn = "Paginate"
    /\ Len(dsCall.cells) = 3
    /\ dsCall.query = [none |-> FALSE, ItemsPerPage |-> 2, Page |-> 1]
    /\ dsCall.result = <<dsCall.cells[3]>>

\* The order the criteria from the k-th on give to x and y: -1 when x goes
\* first, 1 when y does, 0 when they tie on every one of them.
RECURSIVE Ordering(_, _, _, _)
Ordering(sortByList, k, x, y) ==
    IF k > Len(sortByList) THEN 0
    ELSE LET cmp == Compare(GetProperty(x, sortByList[k].Property),
                            GetProperty(y, sortByList[k].Property))
         IN  IF cmp = 0 THEN Ordering(sortByList, k + 1, x, y)
             ELSE IF sortByList[k].Ascending THEN cmp ELSE 0 - cmp

\* C26: sorting is a stable multi-key sort.  The out holds the cells
\* given, each once; no cell comes after a cell that the first criterion on
\* which the two do not tie puts behind it; cells that tie on every
\* criterion keep the order they came in; without criteria the order is
\* the one given.
C26_StableMultiKeySort ==
    dsCall.fn = "Sort" =>
        LET sortByList == dsCall.query.SortByList
            out == dsCall.result
        IN  /\ Len(out) = Len(dsCall.cells)
            /\ \A i \in 1..Len(out) : dsCall.cells[out[i].UID] = out[i]
            /\ \A i, j \in 1..Len(out) :
                  i < j =>
                      /\ out[i].UID # out[j].UID
                      /\ Ordering(sortByList, 1, out[i], out[j]) <= 0
                      /\ Ordering(sortByList, 1, out[i], out[j]) = 0
                            => out[i].UID < out[j].UID
            /\ sortByList = <<>> => out = dsCall.cells

\* C26 witness: b of time 2, a of time 1 and b of time 1, sorted by time and
\* then by name, both ascending, have come out as a, b of time 1, b of
\* time 2.
C26_Witness ==
    /\ dsCall.fn = "Sort"
    /\ dsCall.raw.list = <<"a", "creationTimestamp", "a", "name">>
    /\ Len(dsCall.cells) = 3
    /\ dsCall.cells[1].Name = "b" /\ dsCall.cells[1].CreationTimestamp = 2
    /\ dsCall.cells[2].Name = "a" /\ dsCall.cells[2].CreationTimestamp = 1
    /\ dsCall.cells[3].Name = "b" /\ dsCall.cells[3].CreationTimestamp = 1
    /\ dsCall.result = <<dsCall.cells[2], dsCall.cells[3], dsCall.cells[1]>>

\* The property names a cell type supports.
Supports(type, name) ==
    \/ name \in {"name", "creationTimestamp"}
    \/ name = "namespace" /\ type = "OverridePolicyCell"

\* The criterion holds of the cell: the string value of the property is the
\* criterion's value.  ofUnsupported is what a criterion on a property the
\* cell does not support counts as.
Holds(c, filterBy, ofUnsupported) ==
    IF ~Supports(c.type, filterBy.Property) THEN ofUnsupported
    ELSE IF filterBy.Property = "name" THEN c.Name = filterBy.Value.string
    ELSE IF filterBy.Property = "namespace" THEN c.Namespace = filterBy.Value.string
    ELSE FALSE

\* The out holds, in the order given, the cells of which every
\* criterion holds.
Retains(ofUnsupported) ==
    LET filterByList == dsCall.query.FilterByList
        out == dsCall.result
        kept == {i \in 1..Len(dsCall.cells) :
                    \A k \in 1..Len(filterByList) :
                        Holds(dsCall.cells[i], filterByList[k], ofUnsupported)}
    IN  /\ Len(out) = Cardinality(kept)
        /\ \A i \in 1..Len(out) :
              out[i].UID \in kept /\ dsCall.cells[out[i].UID] = out[i]
        /\ \A i, j \in 1..Len(out) : i < j => out[i].UID < out[j].UID

C29_FetchThenPatch ==
    [][/\ nPatch' = nPatch + 1 =>
             /\ upc = "patch"
             /\ nFetch = nPatch + 1
             /\ patchBytes = CreateThreeWayJSONMergePatch(result, object, result)
       /\ (upc = "fetch" /\ upc' = "patch") =>
             /\ nFetch' = nFetch + 1
             /\ result' = stored
             /\ patchBytes' = CreateThreeWayJSONMergePatch(stored, object', stored)
      ]_vars

\* C29 witness: after a conflict and a write by another client, the second
\* attempt has fetched the copy with the new version token and is about to
\* send the patch computed from it.
C29_Witness ==
    /\ upc = "patch"
    /\ nFetch = 2 /\ nPatch = 1 /\ nConflict = 1
    /\ result = stored
    /\ GetResourceVersion(result) > GetResourceVersion(origRead)
    /\ patchBytes # EmptyPatch

\* C30 as stated: the patch Update submits turns the fetched server copy
\* into the caller's object, field for field, and says nothing about the
\* version token.
C30_PatchYieldsCallersObject ==
    upc = "patch" =>
        /\ ApplyMergePatch(result, patchBytes) = object
        /\ patchBytes[ResourceVersion] = Absent

\* C30, amended: the patch Update submits turns the fetched server copy
\* into the caller's object, field for field, except that a field the
\* caller's object holds as JSON null is deleted, as a field absent from
\* the caller's object is; the patch says nothing about the version token.
C30_PatchIsFullDifference ==
    upc = "patch" =>
        /\ \A f \in AllFields :
              ApplyMergePatch(result, patchBytes)[f] =
                  (IF object[f] = Null THEN Absent ELSE object[f])
        /\ patchBytes[ResourceVersion] = Absent

\* C30 witness: the caller, whose version token another write has made
\* stale, drops the label and changes the spec; the patch deletes the one
\* and sets the other.
C30_Witness ==
    /\ upc = "patch"
    /\ GetResourceVersion(origRead) # GetResourceVersion(result)
    /\ result["label"] = 1 /\ object["label"] = Absent
    /\ result["spec"] = 1 /\ object["spec"] = 2
    /\ patchBytes = [f \in AllFields |->
                        IF f = "label" THEN Null
                        ELSE IF f = "spec" THEN 2 ELSE Absent]

(***************************************************************************)
(* The caller's object across an Update call, under SpecUpdate.            *)
(***************************************************************************)

\* An Update call is between its first Get and its return.
InUpdate == upc \in {"fetch", "patch"}

\* C31 as stated: when Update has returned, the caller's object carries the
\* version token of the last fetched server copy if a fetch succeeded and the
\* token it was passed with if the first fetch failed; no step of the call
\* changes another field of the object.
C31_OnlyVersionTokenChanges ==
    /\ [](upc = "done" =>
            GetResourceVersion(object) =
                IF result # NoObject THEN GetResourceVersion(result)
                                     ELSE GetResourceVersion(origRead))
    /\ [][InUpdate => FieldsOf(object') = FieldsOf(object)]_vars

\* C31, amended: the token is set only by an attempt that fetched the server
\* copy and marshalled it.  When Update has returned and its last attempt did
\* not fail to marshal the fetched copy, the caller's object carries the token
\* of the last fetched copy (the token it was passed with if no fetch
\* succeeded); an attempt that fails to marshal the fetched copy leaves the
\* object as it was, so after a first attempt failing this way the object is
\* unchanged; no step of the call changes another field of the object.
C31_OnlyVersionTokenChangesOnceMarshalled ==
    /\ [](upc = "done" /\ attemptErr # "marshal_orig_failed" =>
            GetResourceVersion(object) =
                IF result # NoObject THEN GetResourceVersion(result)
                                     ELSE GetResourceVersion(origRead))
    /\ [](upc = "done" /\ attemptErr = "marshal_orig_failed" /\ nFetch = 1 =>
            GetResourceVersion(object) = GetResourceVersion(origRead))
    /\ [][InUpdate =>
            /\ FieldsOf(object') = FieldsOf(object)
            /\ attemptErr' \in {"get_failed", "marshal_orig_failed"} =>
                   object' = object
         ]_vars

\* Update returned an error after a retry: the caller's object carries the
\* token of the copy the retry fetched, not the one it was passed with, and
\* its payload differs from the server's.
C31_Witness ==
    /\ upc = "done" /\ ret = "patch_failed" /\ nFetch = 2
    /\ GetResourceVersion(object) = GetResourceVersion(result)
    /\ GetResourceVersion(object) # GetResourceVersion(origRead)
    /\ FieldsOf(object) # FieldsOf(result)
    /\ object["label"] = Null

(***************************************************************************)
(* Properties of buildGroupVersionResourceCache, under SpecResolve.        *)
(***************************************************************************)

\* The cache a rebuild against resourceList lists leaves, started on cache m.
Rebuilt(m, lists) == BuildCache(m, lists, 1).cache

\* C32: a rebuild is idempotent.  From every cache the resolver reaches and
\* for every catalog, two rebuilds in a row leave the cache one rebuild
\* leaves; and once a call has rebuilt the cache, a further rebuild against
\* the same resource list changes nothing.
C32_RebuildIdempotent ==
    /\ \A c \in 1..Len(Catalogs) :
          LET once == Rebuilt(kindToGroupVersionResource, Catalogs[c])
          IN  Rebuilt(once, Catalogs[c]) = once
    /\ nBuild = 1 =>
          Rebuilt(kindToGroupVersionResource, resourceList)
              = kindToGroupVersionResource

\* A call has rebuilt a cache that held entries of an earlier catalog with
\* the catalog that serves one resource in two versions.
C32_Witness ==
    /\ nBuild = 1 /\ rpc = "recheck"
    /\ resourceList = Catalogs[4]
    /\ <<"p", "o", "d">> \in DOMAIN kindToGroupVersionResource
    /\ kindToGroupVersionResource[<<"j", "o", "b">>].Version = <<"v", "2">>

\* The resources a rebuild against lists enumerates, as <<list, resource>>
\* positions: those of the lists before the first group-version that does
\* not parse, sub-resources left out.
Enumerated(lists) ==
    {e \in UNION {{<<i, j>> : j \in 1..Len(lists[i].APIResources)} :
                     i \in 1..Len(lists)} :
        /\ \A h \in 1..e[1] : ParseGroupVersion(lists[h].GroupVersion).ok
        /\ ~Contains(lists[e[1]].APIResources[e[2]].Name, Slash)}

\* The group, the kind key and the composite key of an enumerated resource.
GroupAt(lists, e) == ParseGroupVersion(lists[e[1]].GroupVersion).Group
KindKeyAt(lists, e) == ToLower(lists[e[1]].APIResources[e[2]].Kind)
CompositeKeyAt(lists, e) ==
    lists[e[1]].APIResources[e[2]].Name \o <<Dot>> \o GroupAt(lists, e)

\* The coordinate of an enumerated resource.
CoordinateAt(lists, e) ==
    [Group |-> GroupAt(lists, e),
     Version |-> ParseGroupVersion(lists[e[1]].GroupVersion).Version,
     Resource |-> lists[e[1]].APIResources[e[2]].Name]

\* The position of S that is enumerated last.
EnumeratedLast(S) ==
    CHOOSE e \in S : \A f \in S :
        f = e \/ e[1] > f[1] \/ (e[1] = f[1] /\ e[2] > f[2])

\* C33: after a rebuild, the lower-cased kind key of every enumerated
\* resource resolves to the coordinate of the resource enumerated last among
\* those of that kind name, whatever their groups; its composite key
\* "<resource-name>.<group>" resolves to a coordinate of its own group, in
\* the version enumerated last for that resource of that group.
C33_SharedKindLastWins ==
    nBuild = 1 =>
        \A e \in Enumerated(resourceList) :
            LET sameKind == {f \in Enumerated(resourceList) :
                               KindKeyAt(resourceList, f) = KindKeyAt(resourceList, e)}
                sameResource == {f \in Enumerated(resourceList) :
                               CompositeKeyAt(resourceList, f)
                                   = CompositeKeyAt(resourceList, e)}
            IN  /\ KindKeyAt(resourceList, e) \in DOMAIN kindToGroupVersionResource
                /\ CompositeKeyAt(resourceList, e) \in DOMAIN kindToGroupVersionResource
                /\ kindToGroupVersionResource[KindKeyAt(resourceList, e)]
                       = CoordinateAt(resourceList, EnumeratedLast(sameKind))
                /\ kindToGroupVersionResource[CompositeKeyAt(resourceList, e)]
                       = CoordinateAt(resourceList, EnumeratedLast(sameResource))
                /\ kindToGroupVersionResource[CompositeKeyAt(resourceList, e)].Group
                       = GroupAt(resourceList, e)

\* A rebuild against a catalog in which groups b and c both serve kind Job,
\* group b in two versions: "job" resolves to group c, "jobs.b" to version
\* v2 of group b, "jobs.c" to group c.
C33_Witness ==
    /\ nBuild = 1 /\ rpc = "recheck"
    /\ resourceList = <<BatchV1, BatchV2, OtherV1>>
    /\ kindToGroupVersionResource[<<"j", "o", "b">>].Group = <<"c">>
    /\ kindToGroupVersionResource[<<"j", "o", "b", "s", ".", "b">>]
           = [Group |-> <<"b">>, Version |-> <<"v", "2">>,
              Resource |-> <<"j", "o", "b", "s">>]
    /\ kindToGroupVersionResource[<<"j", "o", "b", "s", ".", "c">>].Group = <<"c">>

(***************************************************************************)
(* The configurations of the registry across member calls, under           *)
(* SpecRegistrySequential.                                                 *)
(***************************************************************************)

\* C34: building member connections leaves the control plane's configuration
\* as InitKarmadaConfig set it, and never nests proxy paths: the address the
\* member configuration holds when a client is constructed for cluster n,
\* and the address of every client constructed for n, is the control
\* plane's address followed by the proxy path of n.
C34_ControlPlaneConfigKept ==
    /\ isKarmadaInitialized =>
          /\ karmadaRestConfig = [nil |-> FALSE, Host |-> KarmadaHost]
          /\ karmadaAPIConfig = [nil |-> FALSE, Host |-> KarmadaHost]
    /\ \A r \in Requests :
          mpc[r] = "new" =>
              karmadaMemberConfig.Host = KarmadaHost \o ProxyPath(mname[r])
    /\ \A c \in constructed :
          c.builtFor \in ClusterNames =>
              c.Host = KarmadaHost \o ProxyPath(c.builtFor)

\* Clients were constructed for member1 and then for member2: the control
\* plane's address is the initial one and the second client's address holds
\* one proxy path only.
C34_Witness ==
    /\ DOMAIN memberClients = ClusterNames
    /\ memberClients["member1"].id < memberClients["member2"].id
    /\ memberClients["member2"].Host = KarmadaHost \o ProxyPath("member2")
    /\ karmadaMemberConfig.Host = KarmadaHost \o ProxyPath("member2")
    /\ karmadaRestConfig.Host = KarmadaHost
    /\ mpc[Sequential] = "done"

(***************************************************************************)
(* The registry while InitKarmadaConfig runs, under SpecStartup.           *)
(***************************************************************************)

\* C35: whenever isKarmadaInitialized() is true the member configuration is
\* set, also between two steps of InitKarmadaConfig, so a GetMemberConfig
\* call that returned a nil error returned a configuration.
C35_InitializedImpliesMemberConfig ==
    /\ isKarmadaInitialized => ~karmadaMemberConfig.nil
    /\ (glast.getter = "GetMemberConfig" /\ glast.err = "nil")
          => ~karmadaMemberConfig.nil

\* C36: for a raw sort list of 2k strings in which every direction flag is
\* "a" or "d", NewSortQuery returns k criteria in the order of the list, the
\* i-th with the property raw[2i+1] and ascending exactly when raw[2i] is
\* "a" (counting from 0); the property may be any string, also one no cell
\* supports.
C36_SortPairs ==
    dsCall.fn = "NewSortQuery" =>
        LET raw == dsCall.raw.list
            k == Len(raw) \div 2
            sortByList == dsCall.result.SortByList
        IN  (/\ ~dsCall.raw.nil
             /\ Len(raw) % 2 = 0
             /\ \A i \in 1..k : raw[2 * i - 1] \in {"a", "d"})
                => /\ Len(sortByList) = k
                   /\ \A i \in 1..k :
                         sortByList[i] = [Property |-> raw[2 * i],
                                          Ascending |-> raw[2 * i - 1] = "a"]

\* C36 witness: two valid pairs, the first descending by a name no cell
\* supports, have given two criteria in that order.
C36_Witness ==
    /\ dsCall.fn = "NewSortQuery"
    /\ dsCall.raw = [nil |-> FALSE, list |-> <<"d", "asc", "a", "name">>]
    /\ dsCall.result.SortByList =
          << [Property |-> "asc", Ascending |-> FALSE],
             [Property |-> "name", Ascending |-> TRUE] >>

====
